---------------------------- MODULE Spec2Model ----------------------------
(***************************************************************************)
(* Model of the GenAI observability SDK for Node.js: the configuration     *)
(* state (config.ts), the redaction engine (redaction.ts), the cost        *)
(* calculator (cost.ts) and the five span lifecycle wrappers               *)
(* (instrumentation.ts).                                                   *)
(*                                                                         *)
(* A JavaScript string is a sequence of one-character strings, so that     *)
(* substring, trim, toLowerCase, includes and regular-expression           *)
(* replacement are computed character by character as the runtime does.    *)
(***************************************************************************)
EXTENDS Integers, Sequences, FiniteSets, TLC

(***************************************************************************)
(* JavaScript strings                                                      *)
(***************************************************************************)
LowerSeq == <<"a", "b", "c", "d", "e", "f", "g", "h", "i", "j", "k", "l", "m", "n", "o", "p", "q", "r", "s", "t", "u", "v", "w", "x", "y", "z">>
UpperSeq == <<"A", "B", "C", "D", "E", "F", "G", "H", "I", "J", "K", "L", "M", "N", "O", "P", "Q", "R", "S", "T", "U", "V", "W", "X", "Y", "Z">>
Lower == {LowerSeq[k] : k \in 1..Len(LowerSeq)}
Upper == {UpperSeq[k] : k \in 1..Len(UpperSeq)}
Digit == {"0", "1", "2", "3", "4", "5", "6", "7", "8", "9"}
Alnum == Lower \cup Upper \cup Digit
\* \w
WordChars == Alnum \cup {"_"}
\* \s
Whitespace == {" ", "\t", "\n", "\r", "\f"}
Punct == {"-", ".", "@", "_", "%", "+", "|", ":", "=", "/", "'", "\"", "(", ")", "[", "]", "{", "}", ",", "!", "?", "$", "#", "&", "*", ";", "<", ">"}
\* . (any character but a line terminator)
Dot == (Alnum \cup Punct \cup Whitespace) \ {"\n", "\r"}

Min(a, b) == IF a < b THEN a ELSE b

\* String.prototype.toLowerCase, one character
ToLowerChar(c) ==
  IF c \in Upper THEN LowerSeq[CHOOSE k \in 1..Len(UpperSeq) : UpperSeq[k] = c] ELSE c

\* String.prototype.toLowerCase
ToLowerCase(s) == [k \in 1..Len(s) |-> ToLowerChar(s[k])]

RECURSIVE TrimStart(_)
TrimStart(s) ==
  IF s # <<>> /\ Head(s) \in Whitespace THEN TrimStart(Tail(s)) ELSE s

RECURSIVE TrimEnd(_)
TrimEnd(s) ==
  IF s # <<>> /\ s[Len(s)] \in Whitespace THEN TrimEnd(SubSeq(s, 1, Len(s) - 1)) ELSE s

\* String.prototype.trim
Trim(s) == TrimEnd(TrimStart(s))

\* String.prototype.substring(0, n), n >= 0
Substring0(s, n) == SubSeq(s, 1, Min(n, Len(s)))

\* String.prototype.includes
Includes(s, sub) ==
  \E i \in 1..(Len(s) - Len(sub) + 1) : SubSeq(s, i, i + Len(sub) - 1) = sub

\* n spaces
Spaces(n) == [k \in 1..n |-> " "]

(***************************************************************************)
(* Regular expressions.  A pattern is a syntax tree; Ends(re, s, i, ic)    *)
(* is the sequence of positions at which a match of re starting at         *)
(* position i of s can end, in the order in which a backtracking matcher   *)
(* tries them (greedy quantifiers first take as much as they can), so that *)
(* its head is the match the runtime reports.  ic is the i flag.           *)
(***************************************************************************)
Cls(set) == [t |-> "cls", set |-> set]
Chr(c) == Cls({c})
WordB == [t |-> "wordb"]
Cat(parts) == [t |-> "cat", parts |-> parts]
Alt(a, b) == [t |-> "alt", a |-> a, b |-> b]
\* r{min,max}; max = -1 is no upper limit
Rep(r, min, max) == [t |-> "rep", r |-> r, min |-> min, max |-> max]
Plus(r) == Rep(r, 1, -1)
Star(r) == Rep(r, 0, -1)
Opt(r) == Rep(r, 0, 1)
\* (?=r)
Look(r) == [t |-> "look", r |-> r]
\* a literal string
Lit(s) == Cat([k \in 1..Len(s) |-> Chr(s[k])])

IsWordAt(s, i) == i >= 1 /\ i <= Len(s) /\ s[i] \in WordChars

\* \b holds between position i-1 and position i
AtWordBoundary(s, i) == IsWordAt(s, i - 1) # IsWordAt(s, i)

ClsMatches(set, c, ic) ==
  IF ic THEN ToLowerChar(c) \in {ToLowerChar(x) : x \in set} ELSE c \in set

RECURSIVE Ends(_, _, _, _)
RECURSIVE EndsCat(_, _, _, _, _)
RECURSIVE EndsCatEach(_, _, _, _, _)
RECURSIVE EndsRep(_, _, _, _, _)
RECURSIVE EndsRepEach(_, _, _, _, _, _)

\* the length of the longest run of characters of set that starts at
\* position i of s
RunLength(set, s, i, ic) ==
  LET ok(k) == \A j \in 0..(k - 1) : ClsMatches(set, s[i + j], ic)
  IN CHOOSE k \in 0..(Len(s) - i + 1) :
       ok(k) /\ (k = Len(s) - i + 1 \/ ~ClsMatches(set, s[i + k], ic))

\* a repeated character class: each repetition takes one character, so
\* the ends are those after hi, hi - 1, ..., re.min characters, hi being
\* the run of the class from i, cut at re.max
EndsClsRep(re, s, i, ic) ==
  LET run == IF i > Len(s) THEN 0 ELSE RunLength(re.r.set, s, i, ic)
      hi == IF re.max # -1 /\ re.max < run THEN re.max ELSE run
  IN IF hi < re.min THEN <<>> ELSE [k \in 1..(hi - re.min + 1) |-> i + hi - k + 1]

Ends(re, s, i, ic) ==
  CASE re.t = "cls" ->
         IF i <= Len(s) /\ ClsMatches(re.set, s[i], ic) THEN <<i + 1>> ELSE <<>>
    [] re.t = "wordb" -> IF AtWordBoundary(s, i) THEN <<i>> ELSE <<>>
    [] re.t = "cat" -> EndsCat(re.parts, 1, s, i, ic)
    [] re.t = "alt" -> Ends(re.a, s, i, ic) \o Ends(re.b, s, i, ic)
    [] re.t = "rep" ->
         IF re.r.t = "cls" THEN EndsClsRep(re, s, i, ic) ELSE EndsRep(re, 0, s, i, ic)
    [] re.t = "look" -> IF Ends(re.r, s, i, ic) # <<>> THEN <<i>> ELSE <<>>

\* parts[k], parts[k+1], ... matched one after the other from position i
EndsCat(parts, k, s, i, ic) ==
  IF k > Len(parts) THEN <<i>>
  ELSE EndsCatEach(parts, k + 1, s, Ends(parts[k], s, i, ic), ic)

\* parts[k], parts[k+1], ... from each of the positions starts, in order
EndsCatEach(parts, k, s, starts, ic) ==
  IF starts = <<>> THEN <<>>
  ELSE IF Len(starts) = 1 THEN EndsCat(parts, k, s, starts[1], ic)
  ELSE LET h == Len(starts) \div 2
       IN EndsCatEach(parts, k, s, SubSeq(starts, 1, h), ic)
          \o EndsCatEach(parts, k, s, SubSeq(starts, h + 1, Len(starts)), ic)

\* re.r repeated, n repetitions done so far: one more repetition is tried
\* before stopping here (greedy)
EndsRep(re, n, s, i, ic) ==
  LET more == IF re.max # -1 /\ n >= re.max THEN <<>>
              ELSE EndsRepEach(re, n + 1, s, i, Ends(re.r, s, i, ic), ic)
      stop == IF n >= re.min THEN <<i>> ELSE <<>>
  IN more \o stop

\* an iteration that consumed nothing is not repeated
EndsRepEach(re, n, s, i, starts, ic) ==
  IF starts = <<>> THEN <<>>
  ELSE (IF Head(starts) > i THEN EndsRep(re, n, s, Head(starts), ic) ELSE <<>>)
       \o EndsRepEach(re, n, s, i, Tail(starts), ic)

\* a RegExp object: its syntax tree and its g and i flags
RegExp(re, g, ic) == [re |-> re, global |-> g, ignoreCase |-> ic]

\* the end of the match of p at position i of s, 0 when there is none
MatchEnd(p, s, i) ==
  LET es == Ends(p.re, s, i, p.ignoreCase) IN IF es = <<>> THEN 0 ELSE Head(es)

\* TRUE when p matches somewhere in s
Matches(p, s) == \E i \in 1..(Len(s) + 1) : MatchEnd(p, s, i) # 0

RECURSIVE ReplaceFrom(_, _, _, _)
\* String.prototype.replace(p, rep) from position k on: the text up to the
\* leftmost match at or after k is kept, the match is replaced, and a
\* pattern with the g flag goes on after the match (one character further
\* when the match is empty)
ReplaceFrom(p, s, k, rep) ==
  LET found == {i \in k..(Len(s) + 1) : MatchEnd(p, s, i) # 0}
  IN IF found = {} THEN SubSeq(s, k, Len(s))
     ELSE
       LET i == CHOOSE j \in found : \A j2 \in found : j <= j2
           e == MatchEnd(p, s, i)
           kept == SubSeq(s, k, i - 1) \o rep
       IN IF ~p.global THEN kept \o SubSeq(s, e, Len(s))
          ELSE IF e > i THEN kept \o ReplaceFrom(p, s, e, rep)
          ELSE IF i > Len(s) THEN kept
          ELSE kept \o <<s[i]>> \o ReplaceFrom(p, s, i + 1, rep)

\* String.prototype.replace(p, rep), rep a string without $ patterns
Replace(s, p, rep) == ReplaceFrom(p, s, 1, rep)

(***************************************************************************)
(* redaction.ts                                                            *)
(***************************************************************************)
PatternNames ==
  { <<"e", "m", "a", "i", "l">>, <<"s", "s", "n">>, <<"a", "p", "i", "_", "k", "e", "y">>, <<"c", "r", "e", "d", "i", "t", "_", "c", "a", "r", "d">>, <<"p", "h", "o", "n", "e">>, <<"i", "p", "v", "4">>,
    <<"b", "e", "a", "r", "e", "r", "_", "t", "o", "k", "e", "n">>, <<"a", "w", "s", "_", "k", "e", "y">>, <<"g", "i", "t", "h", "u", "b", "_", "t", "o", "k", "e", "n">> }

\* const PATTERNS: the regular expression of each built-in name
BuiltinPattern(name) ==
  CASE name = <<"e", "m", "a", "i", "l">> ->
         RegExp(Cat(<<WordB, Plus(Cls(Alnum \cup {".", "_", "%", "+", "-"})), Chr("@"),
                      Plus(Cls(Alnum \cup {".", "-"})), Chr("."),
                      Rep(Cls(Upper \cup Lower \cup {"|"}), 2, -1), WordB>>),
                TRUE, FALSE)
    [] name = <<"s", "s", "n">> ->
         RegExp(Cat(<<WordB, Rep(Cls(Digit), 3, 3), Chr("-"), Rep(Cls(Digit), 2, 2),
                      Chr("-"), Rep(Cls(Digit), 4, 4), WordB>>),
                TRUE, FALSE)
    [] name = <<"a", "p", "i", "_", "k", "e", "y">> ->
         RegExp(Cat(<<WordB, Rep(Cls(Alnum \cup {"_", "-"}), 20, -1), WordB,
                      Look(Cat(<<Star(Cls(Dot)), Lit(<<"k", "e", "y">>)>>))>>),
                TRUE, TRUE)
    [] name = <<"c", "r", "e", "d", "i", "t", "_", "c", "a", "r", "d">> ->
         RegExp(Cat(<<WordB, Rep(Cls(Digit), 4, 4), Opt(Cls({"-", " "})),
                      Rep(Cls(Digit), 4, 4), Opt(Cls({"-", " "})),
                      Rep(Cls(Digit), 4, 4), Opt(Cls({"-", " "})),
                      Rep(Cls(Digit), 4, 4), WordB>>),
                TRUE, FALSE)
    [] name = <<"p", "h", "o", "n", "e">> ->
         RegExp(Cat(<<WordB, Opt(Chr("+")), Opt(Chr("1")), Star(Cls(Whitespace)),
                      Opt(Chr("(")), Rep(Cls(Digit), 3, 3), Opt(Chr(")")),
                      Opt(Cls({"-", "."} \cup Whitespace)), Rep(Cls(Digit), 3, 3),
                      Opt(Cls({"-", "."} \cup Whitespace)), Rep(Cls(Digit), 4, 4), WordB>>),
                TRUE, FALSE)
    [] name = <<"i", "p", "v", "4">> ->
         RegExp(Cat(<<WordB, Rep(Cls(Digit), 1, 3), Chr("."), Rep(Cls(Digit), 1, 3),
                      Chr("."), Rep(Cls(Digit), 1, 3), Chr("."), Rep(Cls(Digit), 1, 3),
                      WordB>>),
                TRUE, FALSE)
    [] name = <<"b", "e", "a", "r", "e", "r", "_", "t", "o", "k", "e", "n">> ->
         RegExp(Cat(<<Lit(<<"B", "e", "a", "r", "e", "r">>), Plus(Cls(Whitespace)),
                      Plus(Cls(Alnum \cup {".", "_", "-"}))>>),
                TRUE, TRUE)
    [] name = <<"a", "w", "s", "_", "k", "e", "y">> ->
         RegExp(Cat(<<Alt(Lit(<<"A", "W", "S">>), Lit(<<"a", "w", "s">>)), Star(Cls(WordChars)),
                      Alt(Lit(<<"k", "e", "y">>), Lit(<<"K", "E", "Y">>)), Star(Cls(WordChars)),
                      Star(Cls(Whitespace)), Cls({":", "="}), Star(Cls(Whitespace)),
                      Opt(Cls({"'", "\""})), Rep(Cls(Alnum \cup {"/", "+", "="}), 40, 40),
                      Opt(Cls({"'", "\""}))>>),
                TRUE, FALSE)
    [] name = <<"g", "i", "t", "h", "u", "b", "_", "t", "o", "k", "e", "n">> ->
         RegExp(Cat(<<Lit(<<"g", "h">>), Cls({"p", "o", "u", "s", "r"}), Chr("_"),
                      Rep(Cls(WordChars), 36, 255)>>),
                TRUE, FALSE)

\* const REPLACEMENTS: the marker of each built-in name
BuiltinReplacement(name) ==
  CASE name = <<"e", "m", "a", "i", "l">> -> <<"[", "E", "M", "A", "I", "L", "_", "R", "E", "D", "A", "C", "T", "E", "D", "]">>
    [] name = <<"s", "s", "n">> -> <<"[", "S", "S", "N", "_", "R", "E", "D", "A", "C", "T", "E", "D", "]">>
    [] name = <<"a", "p", "i", "_", "k", "e", "y">> -> <<"[", "A", "P", "I", "_", "K", "E", "Y", "_", "R", "E", "D", "A", "C", "T", "E", "D", "]">>
    [] name = <<"c", "r", "e", "d", "i", "t", "_", "c", "a", "r", "d">> -> <<"[", "C", "C", "_", "R", "E", "D", "A", "C", "T", "E", "D", "]">>
    [] name = <<"p", "h", "o", "n", "e">> -> <<"[", "P", "H", "O", "N", "E", "_", "R", "E", "D", "A", "C", "T", "E", "D", "]">>
    [] name = <<"i", "p", "v", "4">> -> <<"[", "I", "P", "_", "R", "E", "D", "A", "C", "T", "E", "D", "]">>
    [] name = <<"b", "e", "a", "r", "e", "r", "_", "t", "o", "k", "e", "n">> -> <<"[", "B", "E", "A", "R", "E", "R", "_", "T", "O", "K", "E", "N", "_", "R", "E", "D", "A", "C", "T", "E", "D", "]">>
    [] name = <<"a", "w", "s", "_", "k", "e", "y">> -> <<"[", "A", "W", "S", "_", "K", "E", "Y", "_", "R", "E", "D", "A", "C", "T", "E", "D", "]">>
    [] name = <<"g", "i", "t", "h", "u", "b", "_", "t", "o", "k", "e", "n">> -> <<"[", "G", "I", "T", "H", "U", "B", "_", "T", "O", "K", "E", "N", "_", "R", "E", "D", "A", "C", "T", "E", "D", "]">>

InitialPATTERNS == [name \in PatternNames |-> BuiltinPattern(name)]
InitialREPLACEMENTS == [name \in PatternNames |-> BuiltinReplacement(name)]

DefaultReplacement == <<"[", "R", "E", "D", "A", "C", "T", "E", "D", "]">>

RECURSIVE RedactLastFirst(_, _, _, _, _)
\* a loop over the names from the last to the first
RedactLastFirst(redacted, names, k, pats, reps) ==
  IF k > Len(names) THEN redacted
  ELSE
    LET name == ToLowerCase(Trim(names[Len(names) + 1 - k]))
    IN IF name \in DOMAIN pats
       THEN LET replacement == IF name \in DOMAIN reps /\ reps[name] # <<>>
                               THEN reps[name] ELSE DefaultReplacement
            IN RedactLastFirst(Replace(redacted, pats[name], replacement), names, k + 1,
                               pats, reps)
       ELSE RedactLastFirst(redacted, names, k + 1, pats, reps)

\* PATTERNS[name] for a name that is no key of PATTERNS: the property that
\* the object inherits from Object.prototype, as the string that
\* String.prototype.replace searches for a value that is no RegExp, which is
\* String(Object) for "constructor" and String(Object.prototype) for
\* "__proto__"; <<>> for the other names, which give undefined
InheritedSearch(name) ==
  CASE name = <<"c", "o", "n", "s", "t", "r", "u", "c", "t", "o", "r">> -> <<"f", "u", "n", "c", "t", "i", "o", "n", " ", "O", "b", "j", "e", "c", "t", "(", ")", " ", "{", " ", "[", "n", "a", "t", "i", "v", "e", " ", "c", "o", "d", "e", "]", " ", "}">>
    [] name = <<"_", "_", "p", "r", "o", "t", "o", "_", "_">> -> <<"[", "o", "b", "j", "e", "c", "t", " ", "O", "b", "j", "e", "c", "t", "]">>
    [] OTHER -> <<>>

\* REPLACEMENTS[name] for such a name, applied to the string found: the
\* function Object called with the match gives a String object of the match,
\* and Object.prototype is not callable and is converted to a string
InheritedReplacement(name, found) ==
  IF name = <<"c", "o", "n", "s", "t", "r", "u", "c", "t", "o", "r">> THEN found ELSE <<"[", "o", "b", "j", "e", "c", "t", " ", "O", "b", "j", "e", "c", "t", "]">>

\* String.prototype.replace(search, rep), search and rep strings: the first
\* occurrence of search is replaced
ReplaceString(s, search, rep) ==
  LET found == {i \in 1..(Len(s) - Len(search) + 1) :
                  SubSeq(s, i, i + Len(search) - 1) = search}
  IN IF found = {} THEN s
     ELSE LET i == CHOOSE j \in found : \A j2 \in found : j <= j2
          IN SubSeq(s, 1, i - 1) \o rep \o SubSeq(s, i + Len(search), Len(s))

RECURSIVE RedactUntilUnknown(_, _, _, _, _)
\* a loop that stops at the first name that is not registered
RedactUntilUnknown(redacted, names, k, pats, reps) ==
  IF k > Len(names) THEN redacted
  ELSE
    LET name == ToLowerCase(Trim(names[k]))
    IN IF name \in DOMAIN pats
       THEN LET replacement == IF name \in DOMAIN reps /\ reps[name] # <<>>
                               THEN reps[name] ELSE DefaultReplacement
            IN RedactUntilUnknown(Replace(redacted, pats[name], replacement), names, k + 1,
                                  pats, reps)
       ELSE redacted

RECURSIVE RedactFrom(_, _, _, _, _)
\* the for loop of redactSensitiveData over names[k], names[k+1], ...
RedactFrom(redacted, names, k, pats, reps) ==
  IF k > Len(names) THEN redacted
  ELSE
    LET name == ToLowerCase(Trim(names[k]))
    IN IF name \in DOMAIN pats
       THEN LET replacement == IF name \in DOMAIN reps /\ reps[name] # <<>>
                               THEN reps[name] ELSE DefaultReplacement
            IN RedactFrom(Replace(redacted, pats[name], replacement), names, k + 1,
                          pats, reps)
       ELSE IF InheritedSearch(name) # <<>>
       THEN RedactFrom(ReplaceString(redacted, InheritedSearch(name),
                                     InheritedReplacement(name, InheritedSearch(name))),
                       names, k + 1, pats, reps)
       ELSE RedactFrom(redacted, names, k + 1, pats, reps)

\* redactSensitiveData(text, config) with the registries pats and reps
RedactWith(text, cfg, pats, reps) == RedactFrom(text, cfg.redactPatterns, 1, pats, reps)

(***************************************************************************)
(* config.ts.  Of GenAIConfig the model keeps the fields that the          *)
(* validation, the redaction engine and the wrappers read: environment,    *)
(* logPrompts, sampleRate, redactPatterns and maxAttributeLength.          *)
(* sampleRate is counted in hundredths (100 is the rate 1).  The process   *)
(* environment is a function from the names of the variables that are set  *)
(* to their values; the numeric variables hold decimal numerals.           *)
(***************************************************************************)
RECURSIVE ParseDigits(_, _)
\* the value of the digits of s, acc being the value of those read so far
ParseDigits(s, acc) ==
  IF s = <<>> \/ Head(s) \notin Digit THEN acc
  ELSE ParseDigits(Tail(s),
                   10 * acc + (CHOOSE d \in 0..9 : <<"0", "1", "2", "3", "4", "5", "6", "7", "8", "9">>[d + 1] = Head(s)))

RECURSIVE DigitRun(_)
\* the length of the run of digits s starts with
DigitRun(s) == IF s = <<>> \/ Head(s) \notin Digit THEN 0 ELSE 1 + DigitRun(Tail(s))

\* parseInt(s) of a numeral [-]digits[...]
ParseInt(s) ==
  LET t == TrimStart(s)
  IN IF t # <<>> /\ Head(t) = "-" THEN 0 - ParseDigits(Tail(t), 0) ELSE ParseDigits(t, 0)

\* parseFloat(s) of a numeral [-]digits[.digits], in hundredths (exact for
\* numerals of at most two decimals)
ParseFloat(s) ==
  LET t == TrimStart(s)
      neg == t # <<>> /\ Head(t) = "-"
      u == IF neg THEN Tail(t) ELSE t
      n == DigitRun(u)
      frac == IF n < Len(u) /\ u[n + 1] = "." THEN SubSeq(u, n + 2, Len(u)) ELSE <<>>
      f == Substring0(frac \o <<"0", "0">>, 2)
      v == 100 * ParseDigits(u, 0) + ParseDigits(f, 0)
  IN IF neg THEN 0 - v ELSE v

RECURSIVE SplitFrom(_, _, _)
\* String.prototype.split(sep), sep one character; cur is the piece being read
SplitFrom(s, sep, cur) ==
  IF s = <<>> THEN <<cur>>
  ELSE IF Head(s) = sep THEN <<cur>> \o SplitFrom(Tail(s), sep, <<>>)
  ELSE SplitFrom(Tail(s), sep, Append(cur, Head(s)))

Split(s, sep) == SplitFrom(s, sep, <<>>)

\* process.env.NAME || dflt: an unset or empty variable gives dflt
EnvOr(e, name, dflt) == IF name \in DOMAIN e /\ e[name] # <<>> THEN e[name] ELSE dflt

\* const defaultConfig, read from the environment e at module load
defaultConfig(e) ==
  [ environment |-> EnvOr(e, "GENAI_ENVIRONMENT", <<"d", "e", "v">>),
    logPrompts |-> "GENAI_OTEL_LOG_PROMPTS" \in DOMAIN e
                   /\ ToLowerCase(e["GENAI_OTEL_LOG_PROMPTS"]) = <<"t", "r", "u", "e">>,
    sampleRate |-> ParseFloat(EnvOr(e, "GENAI_OTEL_SAMPLE_RATE", <<"0", ".", "0", "1">>)),
    redactPatterns |-> Split(EnvOr(e, "GENAI_OTEL_REDACT_PATTERNS",
                                   <<"e", "m", "a", "i", "l", ",", "s", "s", "n", ",", "a", "p", "i", "_", "k", "e", "y", ",", "c", "r", "e", "d", "i", "t", "_", "c", "a", "r", "d">>), ","),
    maxAttributeLength |-> ParseInt(EnvOr(e, "GENAI_MAX_ATTR_LENGTH", <<"2", "0", "0", "0">>)) ]

\* { ...config, ...newConfig }
Merge(cfg, newConfig) ==
  [f \in DOMAIN cfg |-> IF f \in DOMAIN newConfig THEN newConfig[f] ELSE cfg[f]]

\* the two validation tests of setConfig: TRUE when one of them throws
ValidationThrows(cfg) ==
  \/ cfg.sampleRate < 0 \/ cfg.sampleRate > 100
  \/ cfg.maxAttributeLength < 100

(***************************************************************************)
(* cost.ts.  Prices are counted in thousandths of a dollar per million     *)
(* tokens and costs in units of 1e-8 USD, so that tokens/1e6 * price is    *)
(* tokens * price in units of 1e-9 USD, which toFixed(8) rounds to the     *)
(* nearest ten.  The error of binary floating point is not modelled.  A    *)
(* ProviderPricing object is a sequence of entries in insertion order,     *)
(* stored in the heap at an address: objects are shared by reference.      *)
(***************************************************************************)
Entry(model, input, output) == [model |-> model, input |-> input, output |-> output]

\* the four ProviderPricing objects of const PRICING_TABLE, at addresses 1..4
BuiltinTables ==
  << << Entry(<<"g", "p", "t", "-", "4", "-", "t", "u", "r", "b", "o">>, 10000, 30000),
        Entry(<<"g", "p", "t", "-", "4">>, 30000, 60000),
        Entry(<<"g", "p", "t", "-", "3", ".", "5", "-", "t", "u", "r", "b", "o">>, 500, 1500),
        Entry(<<"t", "e", "x", "t", "-", "e", "m", "b", "e", "d", "d", "i", "n", "g", "-", "3", "-", "s", "m", "a", "l", "l">>, 20, 0),
        Entry(<<"t", "e", "x", "t", "-", "e", "m", "b", "e", "d", "d", "i", "n", "g", "-", "3", "-", "l", "a", "r", "g", "e">>, 130, 0),
        Entry(<<"t", "e", "x", "t", "-", "e", "m", "b", "e", "d", "d", "i", "n", "g", "-", "a", "d", "a", "-", "0", "0", "2">>, 100, 0) >>,
     << Entry(<<"c", "l", "a", "u", "d", "e", "-", "3", "-", "o", "p", "u", "s", "-", "2", "0", "2", "4", "0", "2", "2", "9">>, 15000, 75000),
        Entry(<<"c", "l", "a", "u", "d", "e", "-", "3", "-", "s", "o", "n", "n", "e", "t", "-", "2", "0", "2", "4", "0", "2", "2", "9">>, 3000, 15000),
        Entry(<<"c", "l", "a", "u", "d", "e", "-", "3", "-", "h", "a", "i", "k", "u", "-", "2", "0", "2", "4", "0", "3", "0", "7">>, 250, 1250),
        Entry(<<"c", "l", "a", "u", "d", "e", "-", "3", "-", "5", "-", "s", "o", "n", "n", "e", "t", "-", "2", "0", "2", "4", "1", "0", "2", "2">>, 3000, 15000) >>,
     << Entry(<<"c", "o", "m", "m", "a", "n", "d", "-", "r", "-", "p", "l", "u", "s">>, 3000, 15000),
        Entry(<<"c", "o", "m", "m", "a", "n", "d", "-", "r">>, 500, 1500),
        Entry(<<"e", "m", "b", "e", "d", "-", "e", "n", "g", "l", "i", "s", "h", "-", "v", "3", ".", "0">>, 100, 0),
        Entry(<<"r", "e", "r", "a", "n", "k", "-", "e", "n", "g", "l", "i", "s", "h", "-", "v", "3", ".", "0">>, 2000, 0) >>,
     << Entry(<<"m", "e", "t", "a", "-", "l", "l", "a", "m", "a", "/", "L", "l", "a", "m", "a", "-", "3", "-", "7", "0", "b">>, 900, 900),
        Entry(<<"m", "e", "t", "a", "-", "l", "l", "a", "m", "a", "/", "L", "l", "a", "m", "a", "-", "3", "-", "8", "b">>, 200, 200),
        Entry(<<"m", "i", "s", "t", "r", "a", "l", "a", "i", "/", "M", "i", "x", "t", "r", "a", "l", "-", "8", "x", "7", "B", "-", "I", "n", "s", "t", "r", "u", "c", "t", "-", "v", "0", ".", "1">>, 600, 600) >> >>

\* const PRICING_TABLE: provider name -> address of its ProviderPricing object
PRICING_TABLE ==
  [provider \in {<<"o", "p", "e", "n", "a", "i">>, <<"a", "n", "t", "h", "r", "o", "p", "i", "c">>, <<"c", "o", "h", "e", "r", "e">>, <<"t", "o", "g", "e", "t", "h", "e", "r">>} |->
     CASE provider = <<"o", "p", "e", "n", "a", "i">> -> 1
       [] provider = <<"a", "n", "t", "h", "r", "o", "p", "i", "c">> -> 2
       [] provider = <<"c", "o", "h", "e", "r", "e">> -> 3
       [] provider = <<"t", "o", "g", "e", "t", "h", "e", "r">> -> 4]

\* Object.assign(target, source) on provider -> address maps: the own
\* properties of source are copied, by reference
ObjectAssign(target, source) ==
  [p \in DOMAIN target \cup DOMAIN source |->
     IF p \in DOMAIN source THEN source[p] ELSE target[p]]

\* new CostCalculator(customPricing): this.pricing = { ...PRICING_TABLE }
\* copies the provider -> object map, not the objects; customPricing is a
\* provider -> address map, empty when the argument is left out
CostCalculator(customPricing) ==
  [isNull |-> FALSE, pricing |-> ObjectAssign(PRICING_TABLE, customPricing)]

\* new CostCalculator()
NewCostCalculator == CostCalculator(<<>>)

\* let calculator: CostCalculator | null = null
NullCalculator == [isNull |-> TRUE, pricing |-> <<>>]

\* getCostCalculator(): the calculator returned, which is also the new value
\* of the module variable
getCostCalculator(calc) == IF calc.isNull THEN NewCostCalculator ELSE calc

\* normalizeModelName
normalizeModelName(model) == ToLowerCase(Trim(model))

\* obj[key] for a key that is no own enumerable property of obj: TRUE when
\* it is a function, an object, a non-empty string or a non-zero number
\* rather than undefined or null.  holder is "plain" for an object literal
\* (its properties are those of Object.prototype), "Object" for the
\* function Object, which is what obj.constructor is, and "prototype" for
\* Object.prototype, which is what obj.__proto__ is.  The keys are in lower
\* case, as the lookups of calculateCost make them.
HasBuiltinProperty(holder, key) ==
  CASE holder = "plain" -> key \in {<<"c", "o", "n", "s", "t", "r", "u", "c", "t", "o", "r">>, <<"_", "_", "p", "r", "o", "t", "o", "_", "_">>}
    [] holder = "Object" ->
         key \in { <<"c", "o", "n", "s", "t", "r", "u", "c", "t", "o", "r">>, <<"_", "_", "p", "r", "o", "t", "o", "_", "_">>, <<"n", "a", "m", "e">>, <<"l", "e", "n", "g", "t", "h">>, <<"p", "r", "o", "t", "o", "t", "y", "p", "e">>,
                   <<"k", "e", "y", "s">>, <<"v", "a", "l", "u", "e", "s">>, <<"e", "n", "t", "r", "i", "e", "s">>, <<"a", "s", "s", "i", "g", "n">>, <<"c", "r", "e", "a", "t", "e">>,
                   <<"f", "r", "e", "e", "z", "e">>, <<"s", "e", "a", "l">>, <<"i", "s">> }
    [] holder = "prototype" -> key = <<"c", "o", "n", "s", "t", "r", "u", "c", "t", "o", "r">>

\* this.pricing[providerLower] when providerLower is no own property of
\* this.pricing: the object found, "none" when it is undefined
BuiltinHolder(providerLower) ==
  CASE providerLower = <<"c", "o", "n", "s", "t", "r", "u", "c", "t", "o", "r">> -> "Object"
    [] providerLower = <<"_", "_", "p", "r", "o", "t", "o", "_", "_">> -> "prototype"
    [] OTHER -> "none"

\* a number, and the number NaN
Num(n) == [nan |-> FALSE, n |-> n]
NaN == [nan |-> TRUE, n |-> 0]

\* cost > 0
Positive(cost) == ~cost.nan /\ cost.n > 0

\* this.pricing[providerLower][modelNormalized]: the index of the entry of
\* that key in the table, 0 when there is none
ExactIndex(table, key) ==
  IF \E k \in 1..Len(table) : table[k].model = key
  THEN CHOOSE k \in 1..Len(table) : table[k].model = key
  ELSE 0

\* a property name that is an array index: the decimal digits of an integer
\* without a leading zero
IsArrayIndex(key) ==
  /\ key # <<>>
  /\ \A k \in 1..Len(key) : key[k] \in Digit
  /\ Len(key) > 1 => key[1] # "0"

\* Object.entries in the order of insertion
InsertionOrder(table) == [n \in 1..Len(table) |-> n]

\* Object.entries(table): the indices of the entries in the order of
\* enumeration, which is the array indices in ascending order, then the other
\* keys in insertion order
EntriesOrder(table) ==
  LET ints == {k \in 1..Len(table) : IsArrayIndex(table[k].model)}
      rest == {k \in 1..Len(table) : ~IsArrayIndex(table[k].model)}
      before(a, b) == LET x == table[a].model
                          y == table[b].model
                      IN Len(x) < Len(y) \/ (Len(x) = Len(y) /\ ParseInt(x) < ParseInt(y))
      intsSorted == [n \in 1..Cardinality(ints) |->
                       CHOOSE a \in ints : Cardinality({b \in ints : before(b, a)}) = n - 1]
      restSorted == [n \in 1..Cardinality(rest) |->
                       CHOOSE a \in rest : Cardinality({b \in rest : b < a}) = n - 1]
  IN intsSorted \o restSorted

\* the for loop over Object.entries: the index of the first entry
\* enumerated whose key contains the name or is contained in it, 0 when
\* there is none
PartialIndex(table, name) ==
  LET order == EntriesOrder(table)
      hit(n) == Includes(table[order[n]].model, name) \/ Includes(name, table[order[n]].model)
  IN IF \E n \in 1..Len(order) : hit(n)
     THEN order[CHOOSE n \in 1..Len(order) : hit(n) /\ \A j \in 1..(n - 1) : ~hit(j)]
     ELSE 0

\* toFixed(8) that drops the digits after the eighth decimal
Truncate8(x) == x \div 10

\* parseFloat(x.toFixed(8)) of x in units of 1e-9 USD, in units of 1e-8 USD
ToFixed8(x) == (x + 5) \div 10

\* CostCalculator.calculateCost on the instance calc, with the heap h
calculateCost(calc, h, provider, model, inputTokens, outputTokens) ==
  LET providerLower == ToLowerCase(provider)
      modelNormalized == normalizeModelName(model)
  IN IF providerLower \in DOMAIN calc.pricing
     THEN LET table == h[calc.pricing[providerLower]]
              exact == ExactIndex(table, modelNormalized)
              k == IF exact # 0 THEN exact ELSE PartialIndex(table, modelNormalized)
          IN IF exact = 0 /\ HasBuiltinProperty("plain", modelNormalized) THEN NaN
             ELSE IF k = 0 THEN Num(0)
             ELSE Num(ToFixed8(inputTokens * table[k].input + outputTokens * table[k].output))
     ELSE IF BuiltinHolder(providerLower) = "none" THEN Num(0)
     ELSE IF HasBuiltinProperty(BuiltinHolder(providerLower), modelNormalized) THEN NaN
     ELSE Num(0)

\* CostCalculator.addCustomPricing on the instance calc, with the heap h:
\* the instance and the heap that it leaves.  The table of a provider that
\* the instance does not have is a new object.
addCustomPricing(calc, h, provider, model, inputPricePer1M, outputPricePer1M) ==
  LET providerLower == ToLowerCase(provider)
      isNew == providerLower \notin DOMAIN calc.pricing
      address == IF isNew THEN Len(h) + 1 ELSE calc.pricing[providerLower]
      table == IF isNew THEN <<>> ELSE h[address]
      k == ExactIndex(table, model)
      entry == Entry(model, inputPricePer1M, outputPricePer1M)
      written == IF k = 0 THEN Append(table, entry) ELSE [table EXCEPT ![k] = entry]
  IN [ calc |-> [calc EXCEPT !.pricing = ObjectAssign(@, (providerLower :> address))],
       heap |-> IF isNew THEN Append(h, written) ELSE [h EXCEPT ![address] = written] ]

(***************************************************************************)
(* JavaScript values that the wrapped callables return or throw and that   *)
(* the decorator options hold.  type is one of                             *)
(*   "undefined", "null",                                                  *)
(*   "string"    the string str,                                           *)
(*   "array"     an array of length numbers 0,                             *)
(*   "dict"      the plain object { query: str },                          *)
(*   "circular"  a plain object that refers to itself,                     *)
(*   "response"  { usage?: {prompt_tokens, completion_tokens,              *)
(*                 total_tokens},                                          *)
(*                 choices: [{finish_reason?, message: {content?}}] },     *)
(*               the content a string or an array of parts,                *)
(*   "error"     an instance of the Error class ctor with message str.     *)
(***************************************************************************)
Value(type, str, length) ==
  [ type |-> type, str |-> str, length |-> length, ctor |-> "",
    hasUsage |-> FALSE, prompt_tokens |-> 0, completion_tokens |-> 0, total_tokens |-> 0,
    finish_reason |-> <<>>, contentType |-> "none" ]

Undefined == Value("undefined", <<>>, 0)
Null == Value("null", <<>>, 0)
StringOf(s) == Value("string", s, 0)
ArrayOf(n) == Value("array", <<>>, n)
Dict(s) == Value("dict", s, 0)
Circular == Value("circular", <<>>, 0)
ErrorOf(ctor, message) == [Value("error", message, 0) EXCEPT !.ctor = ctor]
\* a response whose message content is the string content
Response(content) == [Value("response", content, 0) EXCEPT !.contentType = "string"]
\* a response whose message content is an array of content parts
ResponseParts == [Value("response", <<>>, 0) EXCEPT !.contentType = "array"]
\* a response without message content
ResponseEmpty == Value("response", <<>>, 0)
WithFinish(v, reason) == [v EXCEPT !.finish_reason = reason]
WithUsage(v, p, c, total) ==
  [v EXCEPT !.hasUsage = TRUE, !.prompt_tokens = p, !.completion_tokens = c,
            !.total_tokens = total]

\* the TypeError the runtime throws, with its message
TypeErrorOf(message) == ErrorOf("TypeError", message)

\* reading a property of null or undefined throws
IsNullish(v) == v.type \in {"undefined", "null"}

\* error.message: TRUE when it is defined (a string)
HasMessage(v) == v.type = "error"

\* error.constructor.name
ConstructorName(v) ==
  CASE v.type = "error" -> v.ctor
    [] v.type = "string" -> "String"
    [] v.type = "array" -> "Array"
    [] v.type \in {"dict", "circular", "response"} -> "Object"

RECURSIVE JsonEscape(_)
\* the characters of s inside a JSON string literal
JsonEscape(s) ==
  IF s = <<>> THEN <<>>
  ELSE (CASE Head(s) = "\"" -> <<"\\", "\"">>
          [] Head(s) = "\\" -> <<"\\", "\\">>
          [] Head(s) = "\n" -> <<"\\", "n">>
          [] OTHER -> <<Head(s)>>) \o JsonEscape(Tail(s))

JsonQuote(s) == <<"\"">> \o JsonEscape(s) \o <<"\"">>

RECURSIVE JsonZeros(_)
JsonZeros(n) == IF n = 0 THEN <<>> ELSE IF n = 1 THEN <<"0">> ELSE <<"0", ",">> \o JsonZeros(n - 1)

\* JSON.stringify(v): TRUE when it throws (a circular structure)
JsonThrows(v) == v.type = "circular"

\* JSON.stringify(v): TRUE when it returns undefined instead of a string
JsonIsUndefined(v) == v.type = "undefined"

\* JSON.stringify(v) when it returns a string
JsonStringify(v) ==
  CASE v.type = "null" -> <<"n", "u", "l", "l">>
    [] v.type = "string" -> JsonQuote(v.str)
    [] v.type = "array" -> <<"[">> \o JsonZeros(v.length) \o <<"]">>
    [] v.type = "dict" -> <<"{", "\"", "q", "u", "e", "r", "y", "\"", ":">> \o JsonQuote(v.str) \o <<"}">>
    [] v.type = "error" -> <<"{", "}">>

(***************************************************************************)
(* The span of the tracing runtime (@opentelemetry/api), used through      *)
(* setAttribute(s), setStatus and end.  attributes maps the keys that are  *)
(* set to their values; a write after end is dropped and counted.          *)
(***************************************************************************)
NewSpan(name) ==
  [ name |-> name, attributes |-> <<>>, code |-> "UNSET", hasStatusMessage |-> FALSE,
    statusMessage |-> <<>>, ended |-> 0, lateWrites |-> 0 ]

\* a span that was never started
NoSpan == NewSpan("")

SetAttribute(span, key, value) ==
  IF span.ended > 0 THEN [span EXCEPT !.lateWrites = @ + 1]
  ELSE [span EXCEPT !.attributes = (key :> value) @@ @]

\* span.setStatus({ code, message }); hasMessage is FALSE for an undefined message
SetStatus(span, code, hasMessage, message) ==
  IF span.ended > 0 THEN [span EXCEPT !.lateWrites = @ + 1]
  ELSE [span EXCEPT !.code = code, !.hasStatusMessage = hasMessage,
                    !.statusMessage = IF hasMessage THEN message ELSE <<>>]

End(span) == [span EXCEPT !.ended = @ + 1]

Has(span, key) == key \in DOMAIN span.attributes

(***************************************************************************)
(* instrumentation.ts.  The decorated methods are those of the README:     *)
(* each is one use of a decorator, with its options.  A number option that *)
(* is 0 and a string option that is empty are absent.                      *)
(***************************************************************************)
Methods == {"embed", "retrieve", "rerank", "generate", "searchWeb", "walkGraph"}

SsnText == <<"1", "2", "3", "-", "4", "5", "-", "6", "7", "8", "9">>

Options(m) ==
  LET none == [ kind |-> "", model |-> <<>>, provider |-> <<>>, batchSize |-> 0,
                dimensions |-> 0, source |-> <<>>, topK |-> 0, indexName |-> <<>>,
                filters |-> Undefined, inputCount |-> 0, topN |-> 0,
                hasTemperature |-> FALSE, temperature |-> 0, maxTokens |-> 0,
                streaming |-> FALSE, toolName |-> <<>>, parameters |-> Undefined ]
  IN CASE m = "embed" ->
            [none EXCEPT !.kind = "embed", !.model = <<"t", "e", "x", "t", "-", "e", "m", "b", "e", "d", "d", "i", "n", "g", "-", "3", "-", "s", "m", "a", "l", "l">>,
                         !.provider = <<"o", "p", "e", "n", "a", "i">>, !.dimensions = 1536]
       [] m = "retrieve" ->
            [none EXCEPT !.kind = "retrieve", !.source = <<"p", "i", "n", "e", "c", "o", "n", "e">>, !.topK = 10,
                         !.indexName = <<"d", "o", "c", "s">>, !.filters = Dict(<<"n", "e", "w", "s">>)]
       [] m = "rerank" ->
            [none EXCEPT !.kind = "rerank", !.model = <<"r", "e", "r", "a", "n", "k", "-", "e", "n", "g", "l", "i", "s", "h", "-", "v", "3", ".", "0">>,
                         !.provider = <<"c", "o", "h", "e", "r", "e">>, !.topN = 5]
       [] m = "generate" ->
            [none EXCEPT !.kind = "generate", !.model = <<"g", "p", "t", "-", "4">>, !.hasTemperature = TRUE,
                         !.temperature = 70, !.maxTokens = 500]
       [] m = "searchWeb" ->
            [none EXCEPT !.kind = "tool_call", !.toolName = <<"w", "e", "b", "_", "s", "e", "a", "r", "c", "h">>,
                         !.parameters = Dict(<<"s", "s", "n", " ">> \o SsnText)]
       [] m = "walkGraph" ->
            [none EXCEPT !.kind = "tool_call", !.toolName = <<"w", "a", "l", "k", "_", "g", "r", "a", "p", "h">>,
                         !.parameters = Circular]

\* options.provider || 'openai'
ProviderOr(o) == IF o.provider # <<>> THEN o.provider ELSE <<"o", "p", "e", "n", "a", "i">>

\* a value in a condition: if (v)
Truthy(v) == ~IsNullish(v) /\ ~(v.type = "string" /\ v.str = <<>>)

\* String(v)
JsString(v) ==
  CASE v.type = "string" -> v.str
    [] v.type = "undefined" -> <<"u", "n", "d", "e", "f", "i", "n", "e", "d">>
    [] v.type = "null" -> <<"n", "u", "l", "l">>
    [] v.type \in {"dict", "circular", "response"} -> <<"[", "o", "b", "j", "e", "c", "t", " ", "O", "b", "j", "e", "c", "t", "]">>

RECURSIVE SetAttributes(_, _)
\* span.setAttributes({...}): kvs is the sequence of <<key, value>> of the
\* object literal, without the keys whose value is undefined
SetAttributes(span, kvs) ==
  IF kvs = <<>> THEN span
  ELSE SetAttributes(SetAttribute(span, kvs[1][1], kvs[1][2]), Tail(kvs))

\* where a block of statements leaves: the span as written so far, and the
\* value thrown if it threw
Normal(span) == [span |-> span, threw |-> FALSE, error |-> Undefined]
Throws(span, e) == [span |-> span, threw |-> TRUE, error |-> e]

\* span.setAttribute(key, n) under if (n)
SetIfNumber(span, key, n) == IF n # 0 THEN SetAttribute(span, key, n) ELSE span
\* span.setAttribute(key, s) under if (s)
SetIfString(span, key, s) == IF s # <<>> THEN SetAttribute(span, key, s) ELSE span

\* traceEmbed, the try block up to the call of originalMethod
EmbedBefore(span, cfg, o) ==
  LET s1 == SetAttributes(span, << <<"gen_ai.operation.name", "embed">>,
                                   <<"gen_ai.request.model", o.model>>,
                                   <<"gen_ai.request.provider", ProviderOr(o)>>,
                                   <<"gen_ai.environment", cfg.environment>> >>)
      s2 == SetIfNumber(s1, "gen_ai.request.batch_size", o.batchSize)
  IN Normal(SetIfNumber(s2, "gen_ai.response.dimensions", o.dimensions))

\* traceRetrieve, the try block up to the call of originalMethod
RetrieveBefore(span, cfg, o) ==
  LET s1 == SetAttributes(span, << <<"gen_ai.operation.name", "retrieve">>,
                                   <<"gen_ai.retrieval.top_k", o.topK>>,
                                   <<"gen_ai.retrieval.source", o.source>>,
                                   <<"gen_ai.environment", cfg.environment>> >>)
      s2 == SetIfString(s1, "gen_ai.retrieval.index_name", o.indexName)
  IN IF ~Truthy(o.filters) THEN Normal(s2)
     ELSE IF JsonThrows(o.filters)
     THEN Throws(s2, TypeErrorOf(<<"C", "o", "n", "v", "e", "r", "t", "i", "n", "g", " ", "c", "i", "r", "c", "u", "l", "a", "r", " ", "s", "t", "r", "u", "c", "t", "u", "r", "e", " ", "t", "o", " ", "J", "S", "O", "N">>))
     ELSE Normal(SetAttribute(s2, "gen_ai.retrieval.filters",
                              Substring0(JsonStringify(o.filters), cfg.maxAttributeLength)))

\* traceRerank, the try block up to the call of originalMethod
RerankBefore(span, cfg, o) ==
  LET s1 == SetAttributes(span, << <<"gen_ai.operation.name", "rerank">>,
                                   <<"gen_ai.rerank.model", o.model>>,
                                   <<"gen_ai.environment", cfg.environment>> >>)
      s2 == SetIfNumber(s1, "gen_ai.rerank.input_count", o.inputCount)
  IN Normal(SetIfNumber(s2, "gen_ai.rerank.top_n", o.topN))

\* the prompt attribute attached without regard to config.logPrompts
GeneratePromptUnconditional(span, cfg, args, pats, reps) ==
  IF Len(args) > 0
  THEN SetAttribute(span, "gen_ai.prompt",
                    RedactWith(Substring0(JsString(args[1]), cfg.maxAttributeLength),
                               cfg, pats, reps))
  ELSE span

\* traceGenerate: the prompt attribute (Log prompt if configured)
GeneratePrompt(span, cfg, args, pats, reps) ==
  IF cfg.logPrompts /\ Len(args) > 0
  THEN LET promptText == Substring0(JsString(args[1]), cfg.maxAttributeLength)
       IN SetAttribute(span, "gen_ai.prompt", RedactWith(promptText, cfg, pats, reps))
  ELSE span

\* traceGenerate, the try block up to the call of originalMethod
GenerateBefore(span, cfg, o, args, pats, reps) ==
  LET s1 == SetAttributes(span, << <<"gen_ai.operation.name", "generate">>,
                                   <<"gen_ai.request.model", o.model>>,
                                   <<"gen_ai.request.provider", ProviderOr(o)>>,
                                   <<"gen_ai.environment", cfg.environment>> >>)
      s2 == IF o.hasTemperature
            THEN SetAttribute(s1, "gen_ai.request.temperature", o.temperature) ELSE s1
      s3 == SetIfNumber(s2, "gen_ai.request.max_tokens", o.maxTokens)
      s4 == IF o.streaming THEN SetAttribute(s3, "gen_ai.request.streaming", TRUE) ELSE s3
  IN Normal(GeneratePrompt(s4, cfg, args, pats, reps))

\* traceToolCall, the try block up to the call of originalMethod
ToolCallBefore(span, cfg, o, pats, reps) ==
  LET s1 == SetAttributes(span, << <<"gen_ai.operation.name", "tool_call">>,
                                   <<"gen_ai.tool.name", o.toolName>>,
                                   <<"gen_ai.environment", cfg.environment>> >>)
  IN IF ~Truthy(o.parameters) THEN Normal(s1)
     ELSE IF JsonThrows(o.parameters)
     THEN Throws(s1, TypeErrorOf(<<"C", "o", "n", "v", "e", "r", "t", "i", "n", "g", " ", "c", "i", "r", "c", "u", "l", "a", "r", " ", "s", "t", "r", "u", "c", "t", "u", "r", "e", " ", "t", "o", " ", "J", "S", "O", "N">>))
     ELSE LET paramsStr == Substring0(JsonStringify(o.parameters), cfg.maxAttributeLength)
          IN Normal(SetAttribute(s1, "gen_ai.tool.parameters",
                                 RedactWith(paramsStr, cfg, pats, reps)))

\* a try block that writes nothing before the call of originalMethod
BeforeWritesNothing(m, span, cfg, args, pats, reps) == Normal(span)

\* the try block of the wrapper of method m up to the call of originalMethod
Before(m, span, cfg, args, pats, reps) ==
  LET o == Options(m)
  IN CASE o.kind = "embed" -> EmbedBefore(span, cfg, o)
       [] o.kind = "retrieve" -> RetrieveBefore(span, cfg, o)
       [] o.kind = "rerank" -> RerankBefore(span, cfg, o)
       [] o.kind = "generate" -> GenerateBefore(span, cfg, o, args, pats, reps)
       [] o.kind = "tool_call" -> ToolCallBefore(span, cfg, o, pats, reps)

\* result?.usage
HasUsage(result) == result.type = "response" /\ result.hasUsage

\* traceEmbed, from the return of originalMethod to return result
EmbedAfter(span, o, result, duration, calc, h) ==
  LET s1 == IF HasUsage(result) /\ result.total_tokens # 0
            THEN LET inputTokens == result.total_tokens
                     s == SetAttribute(span, "gen_ai.usage.input_tokens", inputTokens)
                     cost == calculateCost(getCostCalculator(calc), h, ProviderOr(o),
                                           o.model, inputTokens, 0)
                 IN IF Positive(cost) THEN SetAttribute(s, "gen_ai.usage.cost_usd", cost.n)
                    ELSE s
            ELSE span
      s2 == SetAttribute(s1, "gen_ai.request.duration_ms", duration)
  IN Normal(SetStatus(s2, "OK", FALSE, <<>>))

\* Array.isArray(result) ? result.length : 0
ArrayLength(result) == IF result.type = "array" THEN result.length ELSE 0

\* traceRetrieve that takes every result for a hit
RetrieveAlwaysHit(span, result, duration) ==
  LET s1 == SetAttribute(span, "gen_ai.retrieval.results_count", ArrayLength(result))
      s2 == SetAttribute(s1, "gen_ai.retrieval.hit_at_k", 1)
      s3 == SetAttribute(s2, "gen_ai.request.duration_ms", duration)
  IN Normal(SetStatus(s3, "OK", FALSE, <<>>))

\* traceRetrieve, from the return of originalMethod to return result
RetrieveAfter(span, result, duration) ==
  LET resultsCount == ArrayLength(result)
      s1 == SetAttribute(span, "gen_ai.retrieval.results_count", resultsCount)
      s2 == SetAttribute(s1, "gen_ai.retrieval.hit_at_k", IF resultsCount > 0 THEN 1 ELSE 0)
      s3 == SetAttribute(s2, "gen_ai.request.duration_ms", duration)
  IN Normal(SetStatus(s3, "OK", FALSE, <<>>))

\* traceRerank, from the return of originalMethod to return result
RerankAfter(span, result, duration) ==
  LET s1 == SetAttribute(span, "gen_ai.rerank.output_count", ArrayLength(result))
      s2 == SetAttribute(s1, "gen_ai.request.duration_ms", duration)
  IN Normal(SetStatus(s2, "OK", FALSE, <<>>))

\* traceGenerate: Extract token usage
GenerateUsage(span, o, result, calc, h) ==
  IF HasUsage(result)
  THEN LET inputTokens == result.prompt_tokens
           outputTokens == result.completion_tokens
           s == SetAttributes(span,
                  << <<"gen_ai.usage.input_tokens", inputTokens>>,
                     <<"gen_ai.usage.output_tokens", outputTokens>>,
                     <<"gen_ai.usage.total_tokens", result.total_tokens>> >>)
           cost == calculateCost(getCostCalculator(calc), h, ProviderOr(o), o.model,
                                 inputTokens, outputTokens)
       IN IF Positive(cost) THEN SetAttribute(s, "gen_ai.usage.cost_usd", cost.n) ELSE s
  ELSE span

\* result?.choices?.[0]?.message?.content in a condition
HasContent(result) ==
  /\ result.type = "response"
  /\ \/ result.contentType = "array"
     \/ result.contentType = "string" /\ result.str # <<>>

\* traceGenerate: Log completion if configured.  substring is a method of
\* strings only
GenerateCompletion(span, cfg, result, pats, reps) ==
  IF cfg.logPrompts /\ HasContent(result)
  THEN IF result.contentType # "string"
       THEN Throws(span, TypeErrorOf(
              <<"r", "e", "s", "u", "l", "t", ".", "c", "h", "o", "i", "c", "e", "s", "[", "0", "]", ".", "m", "e", "s", "s", "a", "g", "e", ".", "c", "o", "n", "t", "e", "n", "t", ".", "s", "u", "b", "s", "t", "r", "i", "n", "g", " ", "i", "s", " ", "n", "o", "t", " ", "a", " ", "f", "u", "n", "c", "t", "i", "o", "n">>))
       ELSE LET completion == Substring0(result.str, cfg.maxAttributeLength)
            IN Normal(SetAttribute(span, "gen_ai.completion",
                                   RedactWith(completion, cfg, pats, reps)))
  ELSE Normal(span)

\* traceGenerate: Extract finish reason
GenerateFinishReason(span, result) ==
  IF result.type = "response" /\ result.finish_reason # <<>>
  THEN SetAttribute(span, "gen_ai.response.finish_reason", result.finish_reason)
  ELSE span

\* traceGenerate: the duration and the status, reached when nothing threw
GenerateDuration(c, duration) ==
  IF c.threw THEN c
  ELSE Normal(SetStatus(SetAttribute(c.span, "gen_ai.request.duration_ms", duration),
                        "OK", FALSE, <<>>))

\* traceGenerate, from the return of originalMethod to return result
GenerateAfter(span, cfg, o, result, duration, calc, h, pats, reps) ==
  GenerateDuration(
    GenerateCompletion(
      GenerateFinishReason(GenerateUsage(span, o, result, calc, h), result),
      cfg, result, pats, reps),
    duration)

\* traceToolCall, from the return of originalMethod to return result.
\* Buffer.byteLength takes a string: JSON.stringify(undefined) is undefined
ToolCallAfter(span, result, duration) ==
  IF JsonThrows(result)
  THEN Throws(span, TypeErrorOf(<<"C", "o", "n", "v", "e", "r", "t", "i", "n", "g", " ", "c", "i", "r", "c", "u", "l", "a", "r", " ", "s", "t", "r", "u", "c", "t", "u", "r", "e", " ", "t", "o", " ", "J", "S", "O", "N">>))
  ELSE IF JsonIsUndefined(result)
  THEN Throws(span, TypeErrorOf(
         <<"T", "h", "e", " ", "\"", "s", "t", "r", "i", "n", "g", "\"", " ", "a", "r", "g", "u", "m", "e", "n", "t", " ", "m", "u", "s", "t", " ", "b", "e", " ", "o", "f", " ", "t", "y", "p", "e", " ", "s", "t", "r", "i", "n", "g", ".", " ", "R", "e", "c", "e", "i", "v", "e", "d", " ", "u", "n", "d", "e", "f", "i", "n", "e", "d">>))
  ELSE LET resultSize == Len(JsonStringify(result))
           s1 == SetAttribute(span, "gen_ai.tool.result_size_bytes", resultSize)
           s2 == SetAttribute(s1, "gen_ai.request.duration_ms", duration)
       IN Normal(SetStatus(s2, "OK", FALSE, <<>>))

\* the try block of the wrapper of method m after originalMethod returned
After(m, span, cfg, result, duration, calc, h, pats, reps) ==
  LET o == Options(m)
  IN CASE o.kind = "embed" -> EmbedAfter(span, o, result, duration, calc, h)
       [] o.kind = "retrieve" -> RetrieveAfter(span, result, duration)
       [] o.kind = "rerank" -> RerankAfter(span, result, duration)
       [] o.kind = "generate" ->
            GenerateAfter(span, cfg, o, result, duration, calc, h, pats, reps)
       [] o.kind = "tool_call" -> ToolCallAfter(span, result, duration)

\* TRUE when the try block calls getCostCalculator()
CallsCostCalculator(m, result) ==
  \/ Options(m).kind = "embed" /\ HasUsage(result) /\ result.total_tokens # 0
  \/ Options(m).kind = "generate" /\ HasUsage(result)

\* the TypeError of reading property prop of null or undefined
CannotRead(v, prop) ==
  TypeErrorOf(<<"C", "a", "n", "n", "o", "t", " ", "r", "e", "a", "d", " ", "p", "r", "o", "p", "e", "r", "t", "i", "e", "s", " ", "o", "f", " ">> \o JsString(v) \o <<" ", "(", "r", "e", "a", "d", "i", "n", "g", " ", "'">>
              \o prop \o <<"'", ")">>)

\* the length limit of error.message
ErrorMessageLimit == 200

\* the statements of the catch blocks from span.setStatus to throw error
CatchRecord(span, error) ==
  IF IsNullish(error) THEN Throws(span, CannotRead(error, <<"m", "e", "s", "s", "a", "g", "e">>))
  ELSE
    LET s1 == SetStatus(span, "ERROR", HasMessage(error), error.str)
        s2 == SetAttributes(s1,
                << <<"error", TRUE>>, <<"error.type", ConstructorName(error)>> >>
                \o (IF HasMessage(error)
                    THEN << <<"error.message", Substring0(error.str, ErrorMessageLimit)>> >>
                    ELSE <<>>))
    IN Throws(s2, error)

\* catch (error) of traceEmbed, traceRetrieve, traceRerank and traceGenerate
CatchBlock(span, error) == CatchRecord(span, error)

\* a finally block that leaves the span open
FinallyWithoutEnd(span) == span

\* finally of traceEmbed, traceRetrieve, traceRerank and traceGenerate
FinallyBlock(span) == End(span)

\* catch (error) of traceToolCall: resultStatus and errorType are the local
\* variables of the invocation
ToolCallCatchBlock(span, error) ==
  IF IsNullish(error)
  THEN [ frame |-> Throws(span, CannotRead(error, <<"c", "o", "n", "s", "t", "r", "u", "c", "t", "o", "r">>)),
         resultStatus |-> "error", errorType |-> "" ]
  ELSE [ frame |-> CatchRecord(span, error),
         resultStatus |-> "error", errorType |-> ConstructorName(error) ]

\* a finally block of traceToolCall that ends the span first
ToolCallEndsFirst(span, resultStatus, errorType) ==
  LET s1 == SetAttribute(End(span), "gen_ai.tool.result_status", resultStatus)
  IN IF errorType # "" THEN SetAttribute(s1, "gen_ai.tool.error_type", errorType) ELSE s1

\* finally of traceToolCall
ToolCallFinallyBlock(span, resultStatus, errorType) ==
  LET s1 == SetAttribute(span, "gen_ai.tool.result_status", resultStatus)
      s2 == IF errorType # "" THEN SetAttribute(s1, "gen_ai.tool.error_type", errorType)
            ELSE s1
  IN End(s2)

\* try { ... } catch { ... } finally { ... }: what the invocation of method m
\* leaves when its try block left with frame
Exit(m, frame) ==
  IF Options(m).kind = "tool_call"
  THEN LET c == IF frame.threw THEN ToolCallCatchBlock(frame.span, frame.error)
                ELSE [frame |-> frame, resultStatus |-> "success", errorType |-> ""]
       IN [ span |-> ToolCallFinallyBlock(c.frame.span, c.resultStatus, c.errorType),
            threw |-> c.frame.threw, error |-> c.frame.error,
            resultStatus |-> c.resultStatus, errorType |-> c.errorType ]
  ELSE LET c == IF frame.threw THEN CatchBlock(frame.span, frame.error) ELSE frame
       IN [ span |-> FinallyBlock(c.span), threw |-> c.threw, error |-> c.error,
            resultStatus |-> "success", errorType |-> "" ]

(***************************************************************************)
(* The state of the process                                                *)
(***************************************************************************)
VARIABLES
  env,           \* process.env, read once when config.ts is loaded
  config,        \* config.ts: let config
  lastSetConfig, \* history: how the last call of setConfig ended, and when
                 \* it threw the configuration that was in effect before it
  PATTERNS,      \* redaction.ts: const PATTERNS
  REPLACEMENTS,  \* redaction.ts: const REPLACEMENTS
  calculator,    \* cost.ts: let calculator
  heap,          \* the ProviderPricing objects, by address
  now,           \* Date.now()
  calls,         \* the invocations of the decorated methods
  instances,     \* the CostCalculator objects that the application constructs
  costLog,       \* history: the last calls of addCustomPricing and calculateCost
  redactLog      \* history: the last calls of the redaction functions

\* the state of the direct uses of the cost and redaction functions
direct == <<instances, costLog, redactLog>>

vars == <<env, config, lastSetConfig, PATTERNS, REPLACEMENTS, calculator, heap, now, calls,
          instances, costLog, redactLog>>

\* the last instant of the clock
MaxTime == 1

\* the invocations of a behaviour
CallIds == {1}

\* getConfig()
getConfig == config

\* the CostCalculator objects of the application
InstanceIds == {1, 2}

\* the calls of addCustomPricing in a behaviour
MaxAdds == 2

\* a CostCalculator that is not constructed yet; custom is history: the
\* customPricing that the constructor was given, a provider -> table map
NoInstance == [calc |-> NullCalculator, custom |-> <<>>]

\* the records of costLog when no call was made
NoAdd == [instance |-> 0, provider |-> <<>>, model |-> <<>>, input |-> 0, output |-> 0]
NoCall ==
  [ instance |-> 0, provider |-> <<>>, model |-> <<>>, inputTokens |-> 0,
    outputTokens |-> 0, result |-> Num(0) ]

\* the records of redactLog when no call was made
NoPattern == [name |-> <<>>, pattern |-> RegExp(Cat(<<>>), FALSE, FALSE), replacement |-> <<>>]
NoRedaction == [text |-> <<>>, names |-> <<>>, result |-> <<>>]

\* the methods that are decorated: a plain function returns its result or
\* throws in the call, an async function returns a promise
Callables == {"sync", "async"}

\* what the call of a function of that kind hands to its caller
CallGives(kind) == IF kind = "async" THEN "promise" ELSE "value"

\* descriptor.value = async function (...args) { ... }: the kind of the
\* function that replaces a decorated method of kind kind
DescriptorValue(kind) == "async"

\* an invocation that has not been made: pc is "idle", then "awaiting"
\* while originalMethod runs, then "done" when the promise of the
\* instrumented call has settled.  wrapped is what originalMethod did
\* ("returned" or "threw" the value wrappedValue, "pending" while it runs,
\* "none" when it was not called); resumedUnder is history: what getConfig()
\* returned when the invocation went on after the await; settled is how the
\* promise of the instrumented call settled ("resolved" or "rejected" with
\* settledValue).
IdleCall ==
  [ pc |-> "idle", method |-> "", callable |-> "", returns |-> "",
    args |-> <<>>, config |-> <<>>, resumedUnder |-> <<>>, startTime |-> 0,
    span |-> NoSpan, resultStatus |-> "success", errorType |-> "",
    wrapped |-> "none", wrappedValue |-> Undefined,
    settled |-> "pending", settledValue |-> Undefined,
    startedDuring |-> {} ]

\* a text of 100 characters that ends with a social security number
PromptFit == Spaces(100 - Len(SsnText)) \o SsnText
\* a text in which a social security number starts before character 100
\* and ends after it
PromptCut == Spaces(95) \o SsnText
PromptShort == <<"m", "y", " ", "s", "s", "n", " ", "i", "s", " ">> \o SsnText

\* the argument lists with which method m is called
ArgsOf(m) ==
  IF Options(m).kind = "generate"
  THEN {<<>>, <<StringOf(PromptShort)>>, <<StringOf(PromptFit)>>, <<StringOf(PromptCut)>>}
  ELSE {<<>>}

\* the values that the wrapped callables throw
Thrown ==
  { ErrorOf("Error", <<"l", "o", "o", "k", "u", "p", " ", "f", "a", "i", "l", "e", "d", " ", "f", "o", "r", " ">> \o SsnText), Null, Undefined,
    StringOf(<<"t", "i", "m", "e", "o", "u", "t">>) }

\* the values that the callable wrapped as method m returns
Returned(m) ==
  LET k == Options(m).kind
  IN CASE k = "embed" -> {Undefined, WithUsage(ResponseEmpty, 0, 0, 1000)}
       [] k = "retrieve" -> {ArrayOf(0), ArrayOf(2), Undefined}
       [] k = "rerank" -> {ArrayOf(2), Undefined}
       [] k = "generate" ->
            { Undefined, ResponseParts,
              WithFinish(WithUsage(Response(PromptShort), 1000, 500, 1500), <<"s", "t", "o", "p">>),
              Response(PromptCut) }
       [] k = "tool_call" -> {Undefined, StringOf(<<"o", "k">>), Circular}

\* what originalMethod.apply(this, args) does in the call when the method
\* is a plain function (it returns value, or it throws value), and the one
\* thing it does when it is an async function: it returns a promise
Outcomes(m, kind) ==
  IF kind = "async" THEN {[threw |-> FALSE, value |-> Undefined]}
  ELSE {[threw |-> FALSE, value |-> v] : v \in Returned(m)}
       \cup {[threw |-> TRUE, value |-> e] : e \in Thrown}

\* the process environments of the configuration specification
ConfigEnvs ==
  { [n \in names |-> CASE n = "GENAI_OTEL_LOG_PROMPTS" -> flag
                       [] n = "GENAI_OTEL_SAMPLE_RATE" -> rate
                       [] n = "GENAI_MAX_ATTR_LENGTH" -> len
                       [] n = "GENAI_OTEL_REDACT_PATTERNS" -> <<"s", "s", "n", ",", " ", "E", "m", "a", "i", "l">>] :
      names \in SUBSET {"GENAI_OTEL_LOG_PROMPTS", "GENAI_OTEL_SAMPLE_RATE",
                        "GENAI_MAX_ATTR_LENGTH", "GENAI_OTEL_REDACT_PATTERNS"},
      flag \in {<<"T", "R", "U", "E">>, <<"1">>}, rate \in {<<"0", ".", "5">>, <<"5">>}, len \in {<<"1", "0", "0">>, <<"5", "0">>} }

\* the process environments of the wrappers' specification
TraceEnvs ==
  { [n \in names |-> <<"T", "r", "u", "e">>] : names \in SUBSET {"GENAI_OTEL_LOG_PROMPTS"} }

\* the arguments of setConfig in the configuration specification
ConfigPartials ==
  { [sampleRate |-> 150], [sampleRate |-> -10], [sampleRate |-> 100],
    [maxAttributeLength |-> 99], [maxAttributeLength |-> 120],
    [logPrompts |-> TRUE, sampleRate |-> 150],
    [logPrompts |-> TRUE], [redactPatterns |-> <<<<"p", "h", "o", "n", "e">>>>, maxAttributeLength |-> 50] }

\* the arguments of setConfig in the wrappers' specification
TracePartials ==
  { [logPrompts |-> TRUE], [maxAttributeLength |-> 100],
    [environment |-> <<"p", "r", "o", "d">>, redactPatterns |-> <<<<"e", "m", "a", "i", "l">>>>] }

InitCalls(envs, ids) ==
  /\ env \in envs
  /\ config = defaultConfig(env)
  /\ lastSetConfig = [outcome |-> "none", prior |-> <<>>]
  /\ PATTERNS = InitialPATTERNS
  /\ REPLACEMENTS = InitialREPLACEMENTS
  /\ calculator = NullCalculator
  /\ heap = BuiltinTables
  /\ now = 0
  /\ calls = [i \in ids |-> IdleCall]
  /\ instances = [k \in InstanceIds |-> NoInstance]
  /\ costLog = [adds |-> 0, add |-> NoAdd, call |-> NoCall]
  /\ redactLog = [add |-> NoPattern, call |-> NoRedaction]

InitWith(envs) == InitCalls(envs, CallIds)

\* setConfig(newConfig): the assignment, then the validation
setConfig(newConfig) ==
  /\ config' = Merge(config, newConfig)
  /\ lastSetConfig' = [ outcome |-> IF ValidationThrows(config') THEN "throws" ELSE "ok",
                        prior |-> IF ValidationThrows(config') THEN config ELSE <<>> ]
  /\ UNCHANGED <<env, PATTERNS, REPLACEMENTS, calculator, heap, now, calls, direct>>

\* time passes
Tick ==
  /\ now < MaxTime
  /\ now' = now + 1
  /\ UNCHANGED <<env, config, lastSetConfig, PATTERNS, REPLACEMENTS, calculator, heap, calls,
                 direct>>

\* the invocation c once its try, catch and finally blocks have left with
\* x: the promise of the instrumented call settles, rejected with the value
\* that was thrown or resolved with what originalMethod returned
Left(c, x) ==
  [c EXCEPT !.pc = "done", !.span = x.span,
            !.resultStatus = x.resultStatus, !.errorType = x.errorType,
            !.settled = IF x.threw THEN "rejected" ELSE "resolved",
            !.settledValue = IF x.threw THEN x.error ELSE c.wrappedValue]

\* the invocation c once its try block has run up to the call of
\* originalMethod and left frame, and originalMethod did o in the call: the
\* try block has thrown before the call, or originalMethod has thrown in
\* the call, or the invocation awaits what originalMethod returned, a
\* promise or a value
Called(c, frame, o) ==
  IF frame.threw THEN Left(c, Exit(c.method, frame))
  ELSE IF c.callable = "async"
  THEN [c EXCEPT !.pc = "awaiting", !.span = frame.span, !.wrapped = "pending"]
  ELSE IF o.threw
  THEN Left([c EXCEPT !.wrapped = "threw", !.wrappedValue = o.value],
            Exit(c.method, Throws(frame.span, o.value)))
  ELSE [c EXCEPT !.pc = "awaiting", !.span = frame.span,
                 !.wrapped = "returned", !.wrappedValue = o.value]

\* history: the invocations that are suspended at their await
InFlight == {j \in DOMAIN calls : calls[j].pc = "awaiting"}

\* descriptor.value(...args) of method m up to await originalMethod.apply:
\* the configuration and the clock are read, the span is started and the
\* try block runs up to the call.  When it throws before the call, the
\* catch and finally blocks run and the promise is rejected.
Invoke(i, m, kind, args, o) ==
  /\ calls[i].pc = "idle"
  /\ calls' = [calls EXCEPT ![i] =
       Called([IdleCall EXCEPT !.method = m, !.callable = kind,
                               !.returns = CallGives(DescriptorValue(kind)),
                               !.args = args, !.config = getConfig, !.startTime = now,
                               !.startedDuring = InFlight],
              Before(m, NewSpan(Options(m).kind), getConfig, args, PATTERNS, REPLACEMENTS),
              o)]
  /\ UNCHANGED <<env, config, lastSetConfig, PATTERNS, REPLACEMENTS, calculator, heap, now,
                 direct>>

\* a configuration read again after the await
ConfigReread(c) == getConfig

\* const config = getConfig() of the invocation c, read once when the call
\* starts and used by the whole try block
ConfigOf(c) == c.config

\* the rest of the invocation with resultStatus declared once for all the
\* invocations, outside of descriptor.value: a failure sets it for each
\* invocation that is suspended
SettleShared(i, threw, value) ==
  /\ calls[i].pc = "awaiting"
  /\ calls' = [j \in DOMAIN calls |->
       IF j = i
       THEN Left([calls[i] EXCEPT !.wrapped = IF threw THEN "threw" ELSE "returned",
                                  !.wrappedValue = value, !.resumedUnder = getConfig],
                 Exit(calls[i].method,
                      IF threw THEN Throws(calls[i].span, value)
                      ELSE After(calls[i].method, calls[i].span, ConfigOf(calls[i]), value,
                                 now - calls[i].startTime, calculator, heap,
                                 PATTERNS, REPLACEMENTS)))
       ELSE IF threw /\ calls[j].pc = "awaiting"
       THEN [calls[j] EXCEPT !.resultStatus = "error"]
       ELSE calls[j]]
  /\ calculator' = IF ~threw /\ CallsCostCalculator(calls[i].method, value)
                   THEN getCostCalculator(calculator) ELSE calculator
  /\ UNCHANGED <<env, config, lastSetConfig, PATTERNS, REPLACEMENTS, heap, now, direct>>

\* the rest of the invocation once originalMethod has returned or thrown
\* value: the try block to its end or the catch block, then the finally
\* block, and the promise settles
Settle(i, threw, value) ==
  /\ calls[i].pc = "awaiting"
  /\ calls' = [calls EXCEPT ![i] =
       Left([calls[i] EXCEPT !.wrapped = IF threw THEN "threw" ELSE "returned",
                             !.wrappedValue = value, !.resumedUnder = getConfig],
            Exit(calls[i].method,
                 IF threw THEN Throws(calls[i].span, value)
                 ELSE After(calls[i].method, calls[i].span, ConfigOf(calls[i]), value,
                            now - calls[i].startTime, calculator, heap,
                            PATTERNS, REPLACEMENTS)))]
  /\ calculator' = IF ~threw /\ CallsCostCalculator(calls[i].method, value)
                   THEN getCostCalculator(calculator) ELSE calculator
  /\ UNCHANGED <<env, config, lastSetConfig, PATTERNS, REPLACEMENTS, heap, now, direct>>

\* the promise that originalMethod returned is fulfilled
Returns(i) ==
  /\ calls[i].pc = "awaiting"
  /\ calls[i].wrapped = "pending"
  /\ \E v \in Returned(calls[i].method) : Settle(i, FALSE, v)

\* the promise that originalMethod returned is rejected
Raises(i) ==
  /\ calls[i].pc = "awaiting"
  /\ calls[i].wrapped = "pending"
  /\ \E e \in Thrown : Settle(i, TRUE, e)

\* await of the value that a plain function returned: the invocation goes
\* on in a later microtask
Resumes(i) ==
  /\ calls[i].pc = "awaiting"
  /\ calls[i].wrapped = "returned"
  /\ Settle(i, FALSE, calls[i].wrappedValue)

Init == InitWith(TraceEnvs)

Next ==
  \/ \E p \in TracePartials : setConfig(p)
  \/ Tick
  \/ \E i \in CallIds, m \in Methods, kind \in Callables :
       \E args \in ArgsOf(m), o \in Outcomes(m, kind) : Invoke(i, m, kind, args, o)
  \/ \E i \in CallIds : Returns(i)
  \/ \E i \in CallIds : Raises(i)
  \/ \E i \in CallIds : Resumes(i)

\* the wrappers, with setConfig and the clock
Spec == Init /\ [][Next]_vars

\* the wrappers under the scheduling of the runtime: an invocation that
\* awaits a value goes on, since the queue of microtasks is always run; the
\* promise of a wrapped callable settles when the callable settles it, which
\* nothing in the wrapper brings about (it sets no timer and no abort signal)
\* (written out for the continuation, with the condition under which it is
\* enabled: WF_vars(A) is []<>~ENABLED <<A>>_vars \/ []<><<A>>_vars), and time
\* goes on
Resumable == \E i \in CallIds : calls[i].pc = "awaiting" /\ calls[i].wrapped = "returned"

SpecLive ==
  /\ Spec
  /\ WF_vars(Tick)
  /\ ([]<>(~Resumable) \/ []<><<\E i \in CallIds : Resumes(i)>>_vars)

\* two invocations of the instrumented methods of one process: each runs
\* to its await in one step and goes on in a later one, with steps of the
\* other and ticks of the clock in between
ConcurrentIds == {1, 2}

ConcurrentMethods == {"searchWeb", "retrieve"}

\* process.env without a variable of the SDK
ConcurrentEnvs == {<<>>}

InitConcurrent == InitCalls(ConcurrentEnvs, ConcurrentIds)

NextConcurrent ==
  \/ Tick
  \/ \E i \in ConcurrentIds, m \in ConcurrentMethods, kind \in Callables :
       \E args \in ArgsOf(m), o \in Outcomes(m, kind) : Invoke(i, m, kind, args, o)
  \/ \E i \in ConcurrentIds : Returns(i)
  \/ \E i \in ConcurrentIds : Raises(i)
  \/ \E i \in ConcurrentIds : Resumes(i)

SpecConcurrent == InitConcurrent /\ [][NextConcurrent]_vars

InitConfig == InitWith(ConfigEnvs)

NextConfig == \E p \in ConfigPartials : setConfig(p)

\* the configuration state alone
SpecConfig == InitConfig /\ [][NextConfig]_vars

(***************************************************************************)
(* The cost calculator used directly, as in the README: the application    *)
(* constructs calculators, registers prices and asks for costs.            *)
(***************************************************************************)
\* the customPricing arguments of new CostCalculator: none, and one table
\* for a built-in provider
CustomPricings == { <<>>, (<<"o", "p", "e", "n", "a", "i">> :> <<Entry(<<"m", "y", "-", "m", "o", "d", "e", "l">>, 10000, 30000)>>) }

\* the arguments of addCustomPricing
AddInputs ==
  { <<<<"c", "u", "s", "t", "o", "m">>, <<"m", "y", "-", "m", "o", "d", "e", "l">>, 10000, 30000>>,
    <<<<"O", "p", "e", "n", "A", "I">>, <<"G", "P", "T", "-", "4", "-", "V", "i", "s", "i", "o", "n">>, 5, 15>>,
    <<<<"o", "p", "e", "n", "a", "i">>, <<"4">>, 7, 7>>,
    <<<<"o", "p", "e", "n", "a", "i">>, <<"g", "p", "t", "-", "4">>, 1000, 1000>> }

\* the arguments of calculateCost
CostInputs ==
  { <<<<"o", "p", "e", "n", "a", "i">>, <<"g", "p", "t", "-", "4", "-", "t", "u", "r", "b", "o">>, 1000, 500>>,
    <<<<"O", "p", "e", "n", "A", "I">>, <<" ", "G", "P", "T", "-", "4", " ">>, 1000, 500>>,
    <<<<"t", "o", "g", "e", "t", "h", "e", "r">>, <<"m", "e", "t", "a", "-", "l", "l", "a", "m", "a", "/", "L", "l", "a", "m", "a", "-", "3", "-", "7", "0", "b">>, 1000, 500>>,
    <<<<"o", "p", "e", "n", "a", "i">>, <<"u", "n", "k", "n", "o", "w", "n", "-", "m", "o", "d", "e", "l">>, 100, 0>>,
    <<<<"n", "o", "b", "o", "d", "y">>, <<"g", "p", "t", "-", "4">>, 1000, 500>>,
    <<<<"o", "p", "e", "n", "a", "i">>, <<"c", "o", "n", "s", "t", "r", "u", "c", "t", "o", "r">>, 100, 0>>,
    <<<<"c", "o", "n", "s", "t", "r", "u", "c", "t", "o", "r">>, <<"n", "a", "m", "e">>, 100, 0>>,
    <<<<"o", "p", "e", "n", "a", "i">>, <<"g", "p", "t", "-", "4", "-", "0", "6", "1", "3">>, 1000, 500>>,
    <<<<"c", "u", "s", "t", "o", "m">>, <<"m", "y", "-", "m", "o", "d", "e", "l">>, 1000, 500>>,
    <<<<"O", "p", "e", "n", "A", "I">>, <<"G", "P", "T", "-", "4", "-", "V", "i", "s", "i", "o", "n">>, 1000, 500>>,
    <<<<"o", "p", "e", "n", "a", "i">>, <<"4">>, 1, 0>>,
    <<<<"o", "p", "e", "n", "a", "i">>, <<"g", "p", "t", "-", "4">>, 1, 0>> }

RECURSIVE Allocate(_, _, _)
\* the tables of customPricing put in the heap h, one after the other: the
\* provider -> address map of the providers done so far, and the heap
Allocate(customPricing, done, h) ==
  IF DOMAIN customPricing = DOMAIN done THEN [pricing |-> done, heap |-> h]
  ELSE LET p == CHOOSE q \in DOMAIN customPricing : q \notin DOMAIN done
       IN Allocate(customPricing, ObjectAssign(done, (p :> Len(h) + 1)),
                   Append(h, customPricing[p]))

\* instances[k] = new CostCalculator(customPricing)
Construct(k, customPricing) ==
  /\ instances[k].calc.isNull
  /\ instances' = [instances EXCEPT ![k] =
       [ calc |-> CostCalculator(Allocate(customPricing, <<>>, heap).pricing),
         custom |-> customPricing ]]
  /\ heap' = Allocate(customPricing, <<>>, heap).heap
  /\ costLog' = [costLog EXCEPT !.call = NoCall]
  /\ UNCHANGED <<env, config, lastSetConfig, PATTERNS, REPLACEMENTS, calculator, now, calls,
                 redactLog>>

\* instances[k].addCustomPricing(provider, model, input, output)
AddCustomPricing(k, provider, model, input, output) ==
  /\ ~instances[k].calc.isNull
  /\ costLog.adds < MaxAdds
  /\ instances' = [instances EXCEPT ![k].calc =
       addCustomPricing(@, heap, provider, model, input, output).calc]
  /\ heap' = addCustomPricing(instances[k].calc, heap, provider, model, input, output).heap
  /\ costLog' = [ adds |-> costLog.adds + 1,
                  add |-> [ instance |-> k, provider |-> provider, model |-> model,
                            input |-> input, output |-> output ],
                  call |-> NoCall ]
  /\ UNCHANGED <<env, config, lastSetConfig, PATTERNS, REPLACEMENTS, calculator, now, calls,
                 redactLog>>

\* instances[k].calculateCost(provider, model, inputTokens, outputTokens)
CalculateCost(k, provider, model, inputTokens, outputTokens) ==
  /\ ~instances[k].calc.isNull
  /\ costLog' = [costLog EXCEPT !.call =
       [ instance |-> k, provider |-> provider, model |-> model,
         inputTokens |-> inputTokens, outputTokens |-> outputTokens,
         result |-> calculateCost(instances[k].calc, heap, provider, model,
                                  inputTokens, outputTokens) ]]
  /\ UNCHANGED <<env, config, lastSetConfig, PATTERNS, REPLACEMENTS, calculator, heap, now,
                 calls, instances, redactLog>>

InitCost == InitWith({<<>>})

NextCost ==
  \/ \E k \in InstanceIds, c \in CustomPricings : Construct(k, c)
  \/ \E k \in InstanceIds, a \in AddInputs : AddCustomPricing(k, a[1], a[2], a[3], a[4])
  \/ \E k \in InstanceIds, q \in CostInputs : CalculateCost(k, q[1], q[2], q[3], q[4])

\* the cost calculators
SpecCost == InitCost /\ [][NextCost]_vars

(***************************************************************************)
(* The redaction functions used directly: the application registers        *)
(* patterns and redacts texts under a list of pattern names.               *)
(***************************************************************************)
\* the arguments of addRedactionPattern: /EMP-\d+/g under a lower-case and
\* under a mixed-case name, /\d+/ and /EMP/g with the replacement ''
PatternInputs ==
  { <<<<"e", "m", "p", "l", "o", "y", "e", "e">>, RegExp(Cat(<<Lit(<<"E", "M", "P", "-">>), Plus(Cls(Digit))>>), TRUE, FALSE), <<"[", "E", "M", "P", "]">>>>,
    <<<<"E", "m", "p", "l", "o", "y", "e", "e", "_", "I", "D">>, RegExp(Cat(<<Lit(<<"E", "M", "P", "-">>), Plus(Cls(Digit))>>), TRUE, FALSE),
      <<"[", "E", "M", "P", "]">>>>,
    <<<<"b", "a", "d", "g", "e">>, RegExp(Plus(Cls(Digit)), FALSE, FALSE), <<"#">>>>,
    <<<<"b", "l", "a", "n", "k">>, RegExp(Lit(<<"E", "M", "P">>), TRUE, FALSE), <<>>>> }

\* the texts that are redacted
RedactTexts == { <<"E", "M", "P", "-", "1", "2", " ", "E", "M", "P", "-", "3", "4">>, <<"i", "d", " ", "7">> }

\* the names of the redactPatterns lists
ListNames == { <<"e", "m", "p", "l", "o", "y", "e", "e">>, <<"E", "m", "p", "l", "o", "y", "e", "e", "_", "I", "D">>, <<"b", "a", "d", "g", "e">>, <<"b", "l", "a", "n", "k">> }

\* the longest redactPatterns list
MaxNames == 2

\* the redactPatterns lists
RedactLists == UNION { [1..n -> ListNames] : n \in 0..MaxNames }

\* the README's text of the redaction with getConfig()
ReadmeText == <<"C", "o", "n", "t", "a", "c", "t", " ", "j", "o", "h", "n", "@", "e", "x", "a", "m", "p", "l", "e", ".", "c", "o", "m", " ", "o", "r", " ", "c", "a", "l", "l", " ", "5", "5", "5", "-", "1", "2", "3", "-", "4", "5", "6", "7">>

\* further texts and lists: names of inherited properties, names that are
\* not registered, and names to normalize
MoreRedactions ==
  { <<<<"s", "e", "e", " ", "[", "o", "b", "j", "e", "c", "t", " ", "O", "b", "j", "e", "c", "t", "]">>, <<<<"_", "_", "p", "r", "o", "t", "o", "_", "_">>>>>>,
    <<<<"E", "M", "P", "-", "1", "2", " ", "E", "M", "P", "-", "3", "4">>, <<<<"c", "o", "n", "s", "t", "r", "u", "c", "t", "o", "r">>, <<"e", "m", "p", "l", "o", "y", "e", "e">>>>>>,
    <<<<"E", "M", "P", "-", "1", "2", " ", "E", "M", "P", "-", "3", "4">>, <<<<"n", "o", "s", "u", "c", "h">>, <<" ", "E", "M", "P", "L", "O", "Y", "E", "E", " ">>, <<>>>>>>,
    <<<<"i", "d", " ", "7">>, <<<<"s", "s", "n">>, <<"n", "o", "s", "u", "c", "h">>, <<"b", "a", "d", "g", "e">>>>>> }

\* the arguments of redactSensitiveData
RedactInputs == (RedactTexts \X RedactLists) \cup MoreRedactions

\* addRedactionPattern(name, pattern, replacement)
addRedactionPattern(name, pattern, replacement) ==
  /\ PATTERNS' = [n \in DOMAIN PATTERNS \cup {name} |->
                    IF n = name THEN pattern ELSE PATTERNS[n]]
  /\ REPLACEMENTS' = [n \in DOMAIN REPLACEMENTS \cup {name} |->
                        IF n = name THEN replacement ELSE REPLACEMENTS[n]]
  /\ redactLog' = [ add |-> [name |-> name, pattern |-> pattern, replacement |-> replacement],
                    call |-> NoRedaction ]
  /\ UNCHANGED <<env, config, lastSetConfig, calculator, heap, now, calls, instances, costLog>>

\* redactSensitiveData(text, config) with config.redactPatterns = names
redactSensitiveData(text, names) ==
  /\ redactLog' = [redactLog EXCEPT !.call =
       [ text |-> text, names |-> names,
         result |-> RedactWith(text, [redactPatterns |-> names], PATTERNS, REPLACEMENTS) ]]
  /\ UNCHANGED <<env, config, lastSetConfig, PATTERNS, REPLACEMENTS, calculator, heap, now,
                 calls, instances, costLog>>

InitRedact == InitWith({<<>>})

NextRedact ==
  \/ \E a \in PatternInputs : addRedactionPattern(a[1], a[2], a[3])
  \/ \E r \in RedactInputs : redactSensitiveData(r[1], r[2])

\* the redaction functions
SpecRedact == InitRedact /\ [][NextRedact]_vars

(***************************************************************************)
(* The redaction under the configuration, as in the README:                *)
(* redactSensitiveData(text, getConfig()).                                 *)
(***************************************************************************)
\* the process environments: GENAI_OTEL_REDACT_PATTERNS unset, empty and set
DefaultEnvs ==
  { <<>>, ("GENAI_OTEL_REDACT_PATTERNS" :> <<>>),
    ("GENAI_OTEL_REDACT_PATTERNS" :> <<"e", "m", "a", "i", "l", ",", " ", "P", "h", "o", "n", "e">>) }

\* the arguments of setConfig
DefaultPartials ==
  { [redactPatterns |-> <<<<"p", "h", "o", "n", "e">>, <<"n", "o", "s", "u", "c", "h">>, <<"e", "m", "a", "i", "l">>>>], [redactPatterns |-> <<>>],
    [maxAttributeLength |-> 50], [sampleRate |-> 150], [logPrompts |-> TRUE] }

\* the texts that are redacted under the configuration
DefaultTexts == { ReadmeText, <<"S", "S", "N", " ", "1", "2", "3", "-", "4", "5", "-", "6", "7", "8", "9">> }

InitDefault == InitWith(DefaultEnvs)

NextDefault ==
  \/ \E p \in DefaultPartials : setConfig(p)
  \/ \E text \in DefaultTexts : redactSensitiveData(text, getConfig.redactPatterns)

\* the redaction under the configuration
SpecDefault == InitDefault /\ [][NextDefault]_vars

(***************************************************************************)
(* Properties of the configuration state (SpecConfig)                      *)
(***************************************************************************)

\* C1. When setConfig(partial) is rejected, the configuration that getConfig()
\* returns afterwards is the one that was in effect before the call: no field
\* of the rejected partial is retained.
C1_RejectedSetConfigKeepsPrior ==
  lastSetConfig.outcome = "throws" => getConfig = lastSetConfig.prior

\* C2. In every reachable state, after the initialization from the
\* environment and after any sequence of accepted or rejected setConfig calls,
\* the configuration has sampleRate in [0,1] (0..100 hundredths) and
\* maxAttributeLength >= 100.
C2_ConfigAlwaysValid ==
  /\ getConfig.sampleRate >= 0
  /\ getConfig.sampleRate <= 100
  /\ getConfig.maxAttributeLength >= 100

(***************************************************************************)
(* Properties of the wrappers (Spec)                                       *)
(***************************************************************************)
Range(s) == {s[k] : k \in DOMAIN s}

\* the invocation has left: its promise has settled
Done(i) == calls[i].pc = "done"

\* C3. Every invocation of each of the five wrappers ends its span exactly
\* once on every exit path (the wrapped call returns, the wrapped call throws,
\* the extraction of the result throws, the try block throws before the call):
\* the span is open while the wrapped call runs, is ended once the invocation
\* has left, is never ended twice and is never written after its end.
C3_SpanEndedExactlyOnce ==
  \A i \in CallIds :
    /\ calls[i].pc = "awaiting" => calls[i].span.ended = 0
    /\ Done(i) => calls[i].span.ended = 1
    /\ calls[i].span.ended <= 1
    /\ calls[i].span.lateWrites = 0

\* a tool call whose wrapped callable returned and whose extraction of the
\* result threw has left with its span ended once
C3_Witness ==
  \E i \in CallIds :
    /\ Done(i)
    /\ calls[i].wrapped = "returned"
    /\ calls[i].settled = "rejected"
    /\ calls[i].span.ended = 1
    /\ Options(calls[i].method).kind = "tool_call"

\* C4. When the wrapped callable throws a value e, an Error or not (null,
\* undefined, a string), the instrumented call is rejected with that same
\* value e, after the error has been recorded on the span.
C4_ThrownValueReraisedUnchanged ==
  \A i \in CallIds :
    Done(i) /\ calls[i].wrapped = "threw" =>
      /\ calls[i].settled = "rejected"
      /\ calls[i].settledValue = calls[i].wrappedValue
      /\ calls[i].span.code = "ERROR"

\* C5. An instrumented call fails exactly when the wrapped call fails: when
\* the wrapped callable returns r, the instrumented call resolves with r
\* whatever the shape of r, and the instrumented call is rejected only when
\* the wrapped callable threw.
C5_FailsExactlyWhenWrappedFails ==
  \A i \in CallIds :
    /\ Done(i) /\ calls[i].wrapped = "returned" =>
         calls[i].settled = "resolved" /\ calls[i].settledValue = calls[i].wrappedValue
    /\ Done(i) /\ calls[i].settled = "rejected" => calls[i].wrapped = "threw"

\* C6. Every span that is ended carries gen_ai.request.duration_ms with a
\* value >= 0, when the wrapped call succeeded and when it failed.
C6_EndedSpanHasDuration ==
  \A i \in CallIds :
    calls[i].span.ended > 0 =>
      /\ Has(calls[i].span, "gen_ai.request.duration_ms")
      /\ calls[i].span.attributes["gen_ai.request.duration_ms"] >= 0

\* C7. A span carries gen_ai.prompt or gen_ai.completion only when logPrompts
\* is true in the configuration that the invocation read; and while
\* setConfig has not been called, a process started without
\* GENAI_OTEL_LOG_PROMPTS has logPrompts false, so that its spans carry
\* neither.
C7_PromptsOnlyWhenLogPrompts ==
  /\ \A i \in CallIds :
       Has(calls[i].span, "gen_ai.prompt") \/ Has(calls[i].span, "gen_ai.completion")
         => calls[i].config # <<>> /\ calls[i].config.logPrompts
  /\ "GENAI_OTEL_LOG_PROMPTS" \notin DOMAIN env /\ lastSetConfig.outcome = "none"
       => ~getConfig.logPrompts

\* a generate invocation that read logPrompts true has left with the prompt
\* and the completion on its span
C7_Witness ==
  \E i \in CallIds :
    /\ Done(i)
    /\ calls[i].config.logPrompts
    /\ Has(calls[i].span, "gen_ai.prompt")
    /\ Has(calls[i].span, "gen_ai.completion")

\* the names of config.redactPatterns that redactSensitiveData applies
ActiveNames(cfg, pats) ==
  {ToLowerCase(Trim(n)) : n \in Range(cfg.redactPatterns)} \cap DOMAIN pats

\* the substrings of text that pattern p matches
MatchedParts(text, p) ==
  { SubSeq(text, i, MatchEnd(p, text, i) - 1) :
      i \in {j \in 1..Len(text) : MatchEnd(p, text, j) > j} }

\* a part of a substring of text that an active pattern matches, be it one
\* character, appears in the attribute value attr
Leaks(text, attr, cfg, pats) ==
  \E name \in ActiveNames(cfg, pats) :
    \E m \in MatchedParts(text, pats[name]) : Range(m) \cap Range(attr) # {}

\* C8. No part of a substring of the original prompt, completion or
\* tool-parameter text that matches an active redaction pattern appears in
\* the attribute attached to the span (gen_ai.prompt, gen_ai.completion,
\* gen_ai.tool.parameters), whatever maxAttributeLength is and wherever the
\* text is cut.
C8_NoPartOfMatchInAttribute ==
  \A i \in CallIds :
    /\ Has(calls[i].span, "gen_ai.prompt") =>
         ~Leaks(JsString(calls[i].args[1]), calls[i].span.attributes["gen_ai.prompt"],
                calls[i].config, PATTERNS)
    /\ Has(calls[i].span, "gen_ai.completion") =>
         ~Leaks(calls[i].wrappedValue.str, calls[i].span.attributes["gen_ai.completion"],
                calls[i].config, PATTERNS)
    /\ Has(calls[i].span, "gen_ai.tool.parameters") =>
         ~Leaks(JsonStringify(Options(calls[i].method).parameters),
                calls[i].span.attributes["gen_ai.tool.parameters"],
                calls[i].config, PATTERNS)

\* the attributes under the length policy
TextAttributes ==
  {"gen_ai.prompt", "gen_ai.completion", "gen_ai.tool.parameters", "gen_ai.retrieval.filters"}

\* C9. Every text attribute under the length policy has length at most
\* maxAttributeLength of the configuration that the invocation read, the
\* markers that redaction puts in place of the matches included.
C9_TextAttributesWithinMaxLength ==
  \A i \in CallIds : \A key \in TextAttributes :
    Has(calls[i].span, key) =>
      Len(calls[i].span.attributes[key]) <= calls[i].config.maxAttributeLength

\* no active pattern matches in text
Sanitized(text, cfg, pats) ==
  \A name \in ActiveNames(cfg, pats) : ~Matches(pats[name], text)

\* C10. The error message recorded on a failed span, as the attribute
\* error.message and as the message of the status, contains no substring that
\* matches a redaction pattern active in the configuration.
C10_ErrorMessageSanitized ==
  \A i \in CallIds :
    /\ Has(calls[i].span, "error.message") =>
         Sanitized(calls[i].span.attributes["error.message"], calls[i].config, PATTERNS)
    /\ calls[i].span.hasStatusMessage =>
         Sanitized(calls[i].span.statusMessage, calls[i].config, PATTERNS)

\* C11. Wrapping does not change the call semantics of the wrapped callable:
\* the call of a wrapped plain function hands its caller the result in the
\* call, not a promise, and the call of a wrapped async function hands its
\* caller a promise.
C11_CallSemanticsKept ==
  \A i \in CallIds :
    calls[i].pc # "idle" => calls[i].returns = CallGives(calls[i].callable)

\* the prompt attribute that the configuration cfg gives the text
TextAttribute(text, cfg) ==
  RedactWith(Substring0(text, cfg.maxAttributeLength), cfg, PATTERNS, REPLACEMENTS)

\* C12. Each invocation uses the one configuration read when the call
\* started: whatever setConfig does while the wrapped callable is awaited,
\* the environment, the decision to log the prompt and the completion, the
\* cut at maxAttributeLength and the redaction patterns of the span are
\* those of that configuration.
C12_OneSnapshotPerInvocation ==
  \A i \in CallIds :
    /\ Has(calls[i].span, "gen_ai.environment") =>
         calls[i].span.attributes["gen_ai.environment"] = calls[i].config.environment
    /\ Has(calls[i].span, "gen_ai.prompt") =>
         /\ calls[i].config.logPrompts
         /\ calls[i].span.attributes["gen_ai.prompt"]
              = TextAttribute(JsString(calls[i].args[1]), calls[i].config)
    /\ Done(i) /\ calls[i].settled = "resolved" /\ Options(calls[i].method).kind = "generate" =>
         /\ Has(calls[i].span, "gen_ai.completion")
              <=> calls[i].config.logPrompts /\ HasContent(calls[i].wrappedValue)
         /\ Has(calls[i].span, "gen_ai.completion") =>
              calls[i].span.attributes["gen_ai.completion"]
                = TextAttribute(calls[i].wrappedValue.str, calls[i].config)

\* setConfig has changed logPrompts, maxAttributeLength and redactPatterns
\* while a generate call was awaited, and the call has resolved with a
\* completion on its span
C12_Witness ==
  \E i \in CallIds :
    /\ Done(i) /\ calls[i].settled = "resolved"
    /\ Has(calls[i].span, "gen_ai.completion")
    /\ calls[i].resumedUnder.maxAttributeLength # calls[i].config.maxAttributeLength
    /\ calls[i].resumedUnder.redactPatterns # calls[i].config.redactPatterns
    /\ calls[i].resumedUnder.environment # calls[i].config.environment

(***************************************************************************)
(* Claims about the cost calculator, checked under SpecCost.               *)
(***************************************************************************)
\* result is the cost of the tokens at the prices inPrice and outPrice (in
\* thousandths of a dollar per million tokens), rounded to 8 decimals
IsCostAt(result, inPrice, outPrice, inputTokens, outputTokens) ==
  /\ ~result.nan
  /\ (10 * result.n - (inputTokens * inPrice + outputTokens * outPrice)) \in -5..5

\* the result of the call c is the cost of its tokens at the prices of entry
Priced(c, entry) == IsCostAt(c.result, entry.input, entry.output, c.inputTokens, c.outputTokens)

\* C13: after addCustomPricing(p, m, i, o) on a calculator, calculateCost(p,
\* m, ...) on that calculator is priced at i and o, for every provider name p
\* and model name m, whatever their letter case or surrounding whitespace.
C13_CustomPricingUsed ==
  ( /\ costLog.call # NoCall
    /\ costLog.add # NoAdd
    /\ costLog.call.instance = costLog.add.instance
    /\ costLog.call.provider = costLog.add.provider
    /\ costLog.call.model = costLog.add.model )
  => Priced(costLog.call, costLog.add)

\* C14: the lookup of a built-in entry is case-insensitive on the provider
\* and on the model: a calculator with the built-in prices only gives the
\* price of the entry for every spelling of its provider and model that
\* differs from the table's in letter case only.
C14_BuiltinLookupCaseInsensitive ==
  ( /\ costLog.call # NoCall
    /\ costLog.adds = 0
    /\ instances[costLog.call.instance].custom = <<>> )
  => \A p \in DOMAIN PRICING_TABLE :
       \A k \in DOMAIN BuiltinTables[PRICING_TABLE[p]] :
         ( /\ ToLowerCase(costLog.call.provider) = ToLowerCase(p)
           /\ ToLowerCase(costLog.call.model) =
                ToLowerCase(BuiltinTables[PRICING_TABLE[p]][k].model) )
         => Priced(costLog.call, BuiltinTables[PRICING_TABLE[p]][k])

\* the model key and the normalized name match exactly or by substring
KeyMatches(key, name) == key = name \/ Includes(key, name) \/ Includes(name, key)

\* C15: calculateCost returns a number that is never negative, and returns 0
\* when the provider has no pricing table or when no model key of the table
\* matches the normalized model name exactly or by substring.
C15_CostNeverNegative ==
  costLog.call # NoCall =>
    LET c == costLog.call
        pricing == instances[c.instance].calc.pricing
        providerLower == ToLowerCase(c.provider)
        name == normalizeModelName(c.model)
    IN /\ ~c.result.nan
       /\ c.result.n >= 0
       /\ providerLower \notin DOMAIN pricing => c.result = Num(0)
       /\ ( /\ providerLower \in DOMAIN pricing
            /\ \A k \in DOMAIN heap[pricing[providerLower]] :
                 ~KeyMatches(heap[pricing[providerLower]][k].model, name) )
          => c.result = Num(0)

\* C16: when an entry is selected the result is inputTokens / 1e6 times its
\* input price plus outputTokens / 1e6 times its output price, rounded to 8
\* decimals; ("openai", "gpt-4-turbo", 1000, 500) costs 0.025 at the
\* built-in prices.
C16_CostIsRoundedSum ==
  costLog.call # NoCall =>
    LET c == costLog.call
        calc == instances[c.instance]
        providerLower == ToLowerCase(c.provider)
        name == normalizeModelName(c.model)
    IN /\ ( /\ providerLower \in DOMAIN calc.calc.pricing
            /\ ~HasBuiltinProperty("plain", name) )
          => LET table == heap[calc.calc.pricing[providerLower]]
                 exact == ExactIndex(table, name)
                 k == IF exact # 0 THEN exact ELSE PartialIndex(table, name)
             IN k # 0 => Priced(c, table[k])
       /\ ( /\ calc.custom = <<>>
            /\ c.provider = <<"o", "p", "e", "n", "a", "i">> /\ c.model = <<"g", "p", "t", "-", "4", "-", "t", "u", "r", "b", "o">>
            /\ c.inputTokens = 1000 /\ c.outputTokens = 500 )
          => c.result = Num(2500000)

\* a cost was computed whose ninth decimal is not 0: one token at the
\* registered price of 0.007 dollars for a million
C16_Witness ==
  /\ costLog.call # NoCall
  /\ costLog.call.model = <<"4">>
  /\ costLog.call.inputTokens = 1
  /\ costLog.call.result = Num(1)
  /\ \E k \in DOMAIN heap[1] : heap[1][k].model = <<"4">> /\ heap[1][k].input = 7

\* Object.entries gives the key at index a of the table before the key at
\* index b
EnumeratedBefore(table, a, b) ==
  LET x == table[a].model
      y == table[b].model
  IN IF IsArrayIndex(x) /\ IsArrayIndex(y) THEN ParseInt(x) < ParseInt(y)
     ELSE IF IsArrayIndex(x) THEN TRUE
     ELSE IF IsArrayIndex(y) THEN FALSE
     ELSE a < b

\* the call c is priced by the exact key of its normalized model name when
\* the table has one, and otherwise by the first key, in the order before,
\* that contains the name or is contained in it
PricedByFirstKey(c, before(_, _, _)) ==
  LET pricing == instances[c.instance].calc.pricing
      providerLower == ToLowerCase(c.provider)
      name == normalizeModelName(c.model)
      table == heap[pricing[providerLower]]
      exact == {k \in DOMAIN table : table[k].model = name}
      partial == {k \in DOMAIN table :
                    Includes(table[k].model, name) \/ Includes(name, table[k].model)}
  IN (providerLower \in DOMAIN pricing /\ ~HasBuiltinProperty("plain", name))
     => /\ \A k \in exact : Priced(c, table[k])
        /\ exact = {} =>
             \A k \in partial :
               (\A j \in partial \ {k} : before(table, k, j)) => Priced(c, table[k])

\* C17 (as stated): when the normalized model name has no exact key the
\* price is the one of the first key in the table's insertion order that
\* contains the name or is contained in it; an exact key takes precedence.
C17_FirstKeyInInsertionOrder ==
  costLog.call # NoCall =>
    LET InsertedBefore(table, a, b) == a < b
    IN PricedByFirstKey(costLog.call, InsertedBefore)

\* C17 (amended): the first key is the first in the order of Object.entries,
\* which gives the keys that are array indices first, in ascending order,
\* then the other keys in insertion order; an exact key takes precedence.
C17_FirstKeyInEnumerationOrder ==
  costLog.call # NoCall => PricedByFirstKey(costLog.call, EnumeratedBefore)

\* "gpt-4-0613" was priced in a table that holds the key "4", registered
\* after "gpt-4", and the price was the one of "4"
C17_Witness ==
  /\ costLog.call # NoCall
  /\ costLog.call.model = <<"g", "p", "t", "-", "4", "-", "0", "6", "1", "3">>
  /\ ToLowerCase(costLog.call.provider) \in DOMAIN instances[costLog.call.instance].calc.pricing
  /\ LET table == heap[instances[costLog.call.instance].calc.pricing[
                         ToLowerCase(costLog.call.provider)]]
     IN \E a, b \in DOMAIN table :
          /\ a < b
          /\ table[a].model = <<"g", "p", "t", "-", "4">>
          /\ table[b].model = <<"4">>
          /\ table[a].input # table[b].input
          /\ Priced(costLog.call, table[b])

\* C18: a CostCalculator constructed with custom pricing contains every
\* built-in entry as well: a built-in model is priced at its built-in
\* prices, also when its provider appears in the custom pricing.
C18_BuiltinEntriesKept ==
  ( /\ costLog.call # NoCall
    /\ costLog.adds = 0
    /\ instances[costLog.call.instance].custom # <<>> )
  => \A p \in DOMAIN PRICING_TABLE :
       \A k \in DOMAIN BuiltinTables[PRICING_TABLE[p]] :
         ( /\ costLog.call.provider = p
           /\ costLog.call.model = BuiltinTables[PRICING_TABLE[p]][k].model )
         => Priced(costLog.call, BuiltinTables[PRICING_TABLE[p]][k])

(***************************************************************************)
(* Claims about the redaction functions, checked under SpecRedact.         *)
(***************************************************************************)
\* C19: after addRedactionPattern(name, pattern, replacement), a redaction
\* whose list is that name replaces every match of the pattern in the text
\* with the replacement, for every name, whatever its letter case, every
\* pattern and every replacement string.
C19_AddedPatternReplacesEveryMatch ==
  ( /\ redactLog.call # NoRedaction
    /\ redactLog.add # NoPattern
    /\ redactLog.call.names = <<redactLog.add.name>> )
  => redactLog.call.result =
       Replace(redactLog.call.text, [redactLog.add.pattern EXCEPT !.global = TRUE],
               redactLog.add.replacement)

\* one step of the redaction: the pattern registered under the trimmed and
\* lower-cased name, when there is one, applied to text
RedactOne(text, listed) ==
  LET name == ToLowerCase(Trim(listed))
  IN IF name \notin DOMAIN PATTERNS THEN text
     ELSE Replace(text, PATTERNS[name],
                  IF name \in DOMAIN REPLACEMENTS /\ REPLACEMENTS[name] # <<>>
                  THEN REPLACEMENTS[name] ELSE DefaultReplacement)

RECURSIVE FoldLeft(_, _)
\* the left fold of RedactOne over names, from text
FoldLeft(text, names) ==
  IF names = <<>> THEN text
  ELSE RedactOne(FoldLeft(text, SubSeq(names, 1, Len(names) - 1)), names[Len(names)])

\* C20: the redaction applies the patterns one after the other in the order
\* of the list, each to the output of the one before: the result is the left
\* fold of the steps over the list.
C20_RedactionIsLeftFold ==
  redactLog.call # NoRedaction =>
    redactLog.call.result = FoldLeft(redactLog.call.text, redactLog.call.names)

\* a text was redacted under two names whose patterns overlap, and the list
\* in the opposite order gives another result
C20_Witness ==
  /\ redactLog.call # NoRedaction
  /\ Len(redactLog.call.names) = 2
  /\ redactLog.call.result # redactLog.call.text
  /\ redactLog.call.result #
       FoldLeft(redactLog.call.text, <<redactLog.call.names[2], redactLog.call.names[1]>>)

\* listed is registered: a pattern is looked up under its trimmed and
\* lower-cased form
IsRegistered(listed) == ToLowerCase(Trim(listed)) \in DOMAIN PATTERNS

\* C21: the names of the list that are not registered contribute nothing and
\* raise no error: the redaction under a list is the redaction under the
\* registered names of the list, and the redaction under the empty list is
\* the text.
C21_UnregisteredNamesIgnored ==
  redactLog.call # NoRedaction =>
    /\ redactLog.call.result =
         FoldLeft(redactLog.call.text, SelectSeq(redactLog.call.names, IsRegistered))
    /\ redactLog.call.names = <<>> => redactLog.call.result = redactLog.call.text

\* a text was redacted under a list that has a name that is not registered
\* before a registered one, whose pattern matched
C21_Witness ==
  /\ redactLog.call # NoRedaction
  /\ Len(redactLog.call.names) >= 2
  /\ ~IsRegistered(redactLog.call.names[1])
  /\ IsRegistered(redactLog.call.names[2])
  /\ redactLog.call.result # redactLog.call.text

(***************************************************************************)
(* Claims about the redaction under the configuration, checked under       *)
(* SpecDefault.                                                            *)
(***************************************************************************)
\* C22: with the default configuration (GENAI_OTEL_REDACT_PATTERNS not set,
\* no call of setConfig) redactSensitiveData(text, getConfig()) masks the
\* e-mail address and the phone number of the README's text.
C22_DefaultMasksEmailAndPhone ==
  ( /\ redactLog.call.text = ReadmeText
    /\ lastSetConfig.outcome = "none"
    /\ "GENAI_OTEL_REDACT_PATTERNS" \notin DOMAIN env )
  => redactLog.call.result = <<"C", "o", "n", "t", "a", "c", "t", " ", "[", "E", "M", "A", "I", "L", "_", "R", "E", "D", "A", "C", "T", "E", "D", "]", " ", "o", "r", " ", "c", "a", "l", "l", " ", "[", "P", "H", "O", "N", "E", "_", "R", "E", "D", "A", "C", "T", "E", "D", "]">>

\* the error attributes of the catch blocks
ErrorAttributes == {"error", "error.type", "error.message"}

\* C23. When the wrapped callable raises, the span is ended with the status
\* ERROR and with error = true, error.type = the name of the class of the
\* value raised and error.message = its message cut to 200 characters; when
\* the wrapped callable returns, the span is ended with the status OK and
\* with none of these attributes.
C23_ErrorAttributesExactlyOnFailure ==
  \A i \in CallIds :
    /\ Done(i) /\ calls[i].wrapped = "threw" =>
         /\ calls[i].span.ended = 1
         /\ calls[i].span.code = "ERROR"
         /\ Has(calls[i].span, "error") /\ calls[i].span.attributes["error"] = TRUE
         /\ ~IsNullish(calls[i].wrappedValue) =>
              /\ Has(calls[i].span, "error.type")
              /\ calls[i].span.attributes["error.type"] = ConstructorName(calls[i].wrappedValue)
         /\ HasMessage(calls[i].wrappedValue) =>
              /\ Has(calls[i].span, "error.message")
              /\ calls[i].span.attributes["error.message"] =
                   SubSeq(calls[i].wrappedValue.str, 1,
                          Min(ErrorMessageLimit, Len(calls[i].wrappedValue.str)))
    /\ Done(i) /\ calls[i].wrapped = "returned" =>
         /\ calls[i].span.ended = 1
         /\ calls[i].span.code = "OK"
         /\ \A key \in ErrorAttributes : ~Has(calls[i].span, key)

\* C24. Every ended tool_call span carries gen_ai.tool.result_status, set
\* before the span is ended: it is "error", together with
\* gen_ai.tool.error_type, exactly when the wrapped tool raised, and
\* "success" exactly when the wrapped tool returned.
C24_ResultStatusFollowsWrappedTool ==
  \A i \in CallIds :
    (calls[i].span.ended > 0 /\ Options(calls[i].method).kind = "tool_call") =>
      /\ Has(calls[i].span, "gen_ai.tool.result_status")
      /\ calls[i].span.lateWrites = 0
      /\ calls[i].span.attributes["gen_ai.tool.result_status"] = "error"
           <=> calls[i].wrapped = "threw"
      /\ calls[i].span.attributes["gen_ai.tool.result_status"] = "success"
           <=> calls[i].wrapped = "returned"
      /\ calls[i].span.attributes["gen_ai.tool.result_status"] = "error"
           => Has(calls[i].span, "gen_ai.tool.error_type")

\* the static attributes of the wrapper of method m under the configuration
\* cfg: the operation name, the names of the descriptor and the environment
StaticAttributes(m, cfg) ==
  LET o == Options(m)
  IN ("gen_ai.operation.name" :> o.kind) @@ ("gen_ai.environment" :> cfg.environment)
     @@ CASE o.kind = "embed" ->
               ("gen_ai.request.model" :> o.model) @@ ("gen_ai.request.provider" :> ProviderOr(o))
          [] o.kind = "retrieve" -> ("gen_ai.retrieval.source" :> o.source)
          [] o.kind = "rerank" -> ("gen_ai.rerank.model" :> o.model)
          [] o.kind = "generate" ->
               ("gen_ai.request.model" :> o.model) @@ ("gen_ai.request.provider" :> ProviderOr(o))
          [] o.kind = "tool_call" -> ("gen_ai.tool.name" :> o.toolName)

\* C25. The static attributes are on the span before the wrapped callable
\* is invoked: the span carries them while the wrapped call runs and once
\* the invocation has left, also when the wrapped call or the wrapper failed.
C25_StaticAttributesBeforeCall ==
  \A i \in CallIds :
    calls[i].pc \in {"awaiting", "done"} =>
      \A key \in DOMAIN StaticAttributes(calls[i].method, calls[i].config) :
        /\ Has(calls[i].span, key)
        /\ calls[i].span.attributes[key] =
             StaticAttributes(calls[i].method, calls[i].config)[key]

\* a wrapped call has failed and its ended span carries the environment
\* that setConfig had set before the invocation
C25_Witness ==
  \E i \in CallIds :
    /\ Done(i)
    /\ calls[i].wrapped = "threw"
    /\ calls[i].span.ended = 1
    /\ Has(calls[i].span, "gen_ai.environment")
    /\ calls[i].span.attributes["gen_ai.environment"] = <<"p", "r", "o", "d">>

\* C26. Every started span is eventually ended, also when the execution of
\* the wrapped callable is aborted or times out outside of the wrapper.
C26_StartedSpanEventuallyEnded ==
  \A i \in CallIds : (calls[i].pc = "awaiting") ~> (calls[i].span.ended > 0)

\* the invocation i is one of the retrieve wrapper that has succeeded with
\* an array as the result of the wrapped method
RetrievedArray(i) ==
  /\ Done(i)
  /\ Options(calls[i].method).kind = "retrieve"
  /\ calls[i].settled = "resolved"
  /\ calls[i].wrappedValue.type = "array"

\* C27. For a retrieve invocation that succeeds,
\* gen_ai.retrieval.results_count is the length of the returned sequence and
\* gen_ai.retrieval.hit_at_k is 1 when that length is greater than 0 and 0
\* otherwise.
C27_ResultsCountAndHitAtK ==
  \A i \in CallIds :
    RetrievedArray(i) =>
      /\ Has(calls[i].span, "gen_ai.retrieval.results_count")
      /\ calls[i].span.attributes["gen_ai.retrieval.results_count"] =
           calls[i].wrappedValue.length
      /\ Has(calls[i].span, "gen_ai.retrieval.hit_at_k")
      /\ calls[i].span.attributes["gen_ai.retrieval.hit_at_k"] =
           IF calls[i].wrappedValue.length > 0 THEN 1 ELSE 0

\* a retrieve invocation has succeeded with an empty array: no hit
C27_Witness ==
  \E i \in CallIds :
    /\ RetrievedArray(i)
    /\ calls[i].wrappedValue.length = 0
    /\ calls[i].span.ended = 1
    /\ calls[i].span.attributes["gen_ai.retrieval.hit_at_k"] = 0

\* what the invocation c has written itself before its await: the span that
\* its own try block has filled up to the call of originalMethod
OwnSpanAtAwait(c) ==
  Before(c.method, NewSpan(Options(c.method).kind), c.config, c.args,
         PATTERNS, REPLACEMENTS).span

\* C28. Concurrent invocations are independent under every interleaving of
\* their suspension points.  While an invocation is suspended, its span,
\* its result status and its error type are what the invocation itself has
\* written, whatever the other invocation has done in between, and its
\* start time is not later than the clock; once it has left, a wrapped call
\* that returned has a span with the status OK, no error attribute and the
\* result status "success", and a wrapped call that threw has a span with
\* the status ERROR and the result status "error" with the error type of
\* the value it threw itself.
C28_ConcurrentInvocationsIndependent ==
  \A i \in ConcurrentIds :
    /\ calls[i].pc = "awaiting" =>
         /\ calls[i].span = OwnSpanAtAwait(calls[i])
         /\ calls[i].resultStatus = "success"
         /\ calls[i].errorType = ""
         /\ calls[i].startTime <= now
    /\ (Done(i) /\ calls[i].wrapped = "returned"
          /\ calls[i].wrappedValue.type \in {"string", "array"}) =>
         /\ calls[i].span.ended = 1
         /\ calls[i].span.code = "OK"
         /\ \A key \in ErrorAttributes : ~Has(calls[i].span, key)
         /\ calls[i].settled = "resolved"
         /\ Options(calls[i].method).kind = "tool_call" =>
              /\ calls[i].span.attributes["gen_ai.tool.result_status"] = "success"
              /\ ~Has(calls[i].span, "gen_ai.tool.error_type")
    /\ (Done(i) /\ calls[i].wrapped = "threw" /\ ~IsNullish(calls[i].wrappedValue)) =>
         /\ calls[i].span.ended = 1
         /\ calls[i].span.code = "ERROR"
         /\ calls[i].settled = "rejected"
         /\ calls[i].settledValue = calls[i].wrappedValue
         /\ Options(calls[i].method).kind = "tool_call" =>
              /\ calls[i].span.attributes["gen_ai.tool.result_status"] = "error"
              /\ calls[i].span.attributes["gen_ai.tool.error_type"] =
                   ConstructorName(calls[i].wrappedValue)

\* a tool call that was invoked while another one was suspended has failed,
\* and the other one, invoked earlier, has succeeded
C28_Witness ==
  \E i, j \in ConcurrentIds :
    /\ i # j
    /\ Done(i) /\ Done(j)
    /\ j \in calls[i].startedDuring
    /\ calls[j].startTime < calls[i].startTime
    /\ Options(calls[i].method).kind = "tool_call"
    /\ Options(calls[j].method).kind = "tool_call"
    /\ calls[i].wrapped = "threw" /\ calls[i].span.code = "ERROR"
    /\ calls[i].span.attributes["gen_ai.tool.result_status"] = "error"
    /\ calls[j].wrapped = "returned" /\ calls[j].span.code = "OK"
    /\ calls[j].span.attributes["gen_ai.tool.result_status"] = "success"

(***************************************************************************)
(* Claims about the isolation of the calculators, checked under SpecCost.  *)
(***************************************************************************)
\* what calculateCost returns for the arguments of call on a calculator that
\* was constructed with customPricing when no price had been registered
UntouchedCost(customPricing, call) ==
  calculateCost(CostCalculator(Allocate(customPricing, <<>>, BuiltinTables).pricing),
                Allocate(customPricing, <<>>, BuiltinTables).heap,
                call.provider, call.model, call.inputTokens, call.outputTokens)

\* C29. The calculators are isolated: addCustomPricing on one instance
\* never changes the built-in pricing table of the module, and never
\* changes what calculateCost returns on another instance, constructed
\* before or after: when the one price registered so far was registered on
\* another instance, calculateCost returns what it returns when no price
\* was registered.
C29_InstancesIsolated ==
  /\ \A a \in DOMAIN BuiltinTables : heap[a] = BuiltinTables[a]
  /\ ( /\ costLog.call # NoCall
       /\ costLog.adds = 1
       /\ costLog.call.instance # costLog.add.instance )
     => costLog.call.result =
          UntouchedCost(instances[costLog.call.instance].custom, costLog.call)

(***************************************************************************)
(* Claims about the order of the span operations, checked under Spec.      *)
(***************************************************************************)
\* C30. In every wrapper and on every exit path, ending the span is the
\* last span operation of the invocation: no attribute and no status is
\* written to a span that was ended, and what the finally block of
\* traceToolCall writes is on the span that was ended.
C30_EndIsLastSpanOperation ==
  \A i \in CallIds :
    /\ calls[i].span.lateWrites = 0
    /\ (calls[i].span.ended > 0 /\ Options(calls[i].method).kind = "tool_call") =>
         /\ Has(calls[i].span, "gen_ai.tool.result_status")
         /\ calls[i].span.attributes["gen_ai.tool.result_status"] = calls[i].resultStatus
         /\ calls[i].errorType # "" =>
              /\ Has(calls[i].span, "gen_ai.tool.error_type")
              /\ calls[i].span.attributes["gen_ai.tool.error_type"] = calls[i].errorType

\* a tool call whose wrapped callable threw an Error has left through its
\* catch and finally blocks: the status, the error attributes, the result
\* status and the error type are on the span that was ended
C30_Witness ==
  \E i \in CallIds :
    /\ Done(i)
    /\ Options(calls[i].method).kind = "tool_call"
    /\ calls[i].wrapped = "threw"
    /\ calls[i].span.ended = 1
    /\ calls[i].span.code = "ERROR"
    /\ Has(calls[i].span, "error.message")
    /\ Has(calls[i].span, "gen_ai.tool.error_type")
    /\ calls[i].span.attributes["gen_ai.tool.error_type"] = "Error"

=============================================================================
